---- MODULE Spec2Model ----
(***************************************************************************)
(* age-orm: the entity state model (AgeModel / Vertex / Edge), the Graph   *)
(* facade operations that move an entity between transient, persisted and  *)
(* detached, and the store those operations talk to through the transport. *)
(*                                                                         *)
(* One action per facade operation or entity hook; every action models the *)
(* whole handler, including label provisioning, the statement(s) it issues *)
(* and the lifecycle events it dispatches.                                 *)
(***************************************************************************)
EXTENDS Integers, Sequences, FiniteSets, TLC

(***************************************************************************)
(* Bounds of the model.                                                    *)
(***************************************************************************)
\* the identities the store hands out in the vertex runs are 1..MaxId
MaxId == 3
\* the identities the store hands out in the edge runs are 1..MaxEdgeId
MaxEdgeId == 4
\* longest argument list of bulk_add / bulk_add_edges
MaxBulk == 2
\* the identities the store hands out in the relationship runs are 1..MaxRelId
MaxRelId == 4
\* the identities the store hands out in the concurrent bulk runs
MaxBulkId == 4
\* the longest statement text handed to substitute_cypher_params, in tokens
MaxTokens == 3
\* most tokens a string of the codec runs is put together from
MaxCodecTokens == 3
\* the identities the store hands out in the concurrent add runs
MaxProvId == 3
\* the identities the store hands out in the query runs are 1..MaxQId
MaxQId == 3
\* most filters / sort keys a builder accumulates, largest limit count
MaxFilters == 2
MaxSort == 2
MaxPage == 2

(***************************************************************************)
(* Values.                                                                 *)
(***************************************************************************)
\* Python None for graph_id / start_id / end_id (identities are >= 1)
NoId == 0
\* Python None for the _db / _graph handles
NoneH == "None"
\* the Database the Graph is bound to (Graph._db)
TheDb == "db"
\* the Graph object itself (what entity._graph is set to)
TheGraph == "graph"
\* some other object passed as _db (tests pass _db=object())
OtherDb == "obj"
\* the value a constructor call gives every field, and the value assigned
InitVal == 0
NewVal == 1

(***************************************************************************)
(* The declared model classes (tests/conftest.py) and the Python objects   *)
(* the model follows.                                                      *)
(***************************************************************************)
Ents == {"v1", "v2", "e1"}

ClassOf(e) == IF e = "e1" THEN "Knows" ELSE "PersonWithRels"

\* isinstance(entity, Vertex)
IsVertex(cls) == cls = "PersonWithRels"

\* __label__
LabelOf(cls) == IF cls = "PersonWithRels" THEN "PersonRel" ELSE "KNOWS"

\* type(self).model_fields: every annotated attribute, relationship slots too;
\* `peers` is a second slot over the same edge label, declared with
\* relationship(..., cache=False)
ModelFields(cls) ==
  IF cls = "PersonWithRels" THEN {"name", "age", "friends", "peers"}
  ELSE {"since"}

\* the fields whose declared default is a Relationship (self._age_refs)
Refs(cls) == IF cls = "PersonWithRels" THEN {"friends", "peers"} ELSE {}

\* self._age_fields: the persisted fields
AgeFields(cls) == ModelFields(cls) \ Refs(cls)

\* Relationship.cache of a slot (relationship(...) default cache=True)
RelCache(slot) == slot # "peers"

\* the edge label a slot traverses, and the label of its target class
RelEdgeLabel(slot) == "KNOWS"
RelTargetLabel(slot) == "PersonRel"

VARIABLES
  ent,      \* the Python objects: ent[e] is the entity's internal state
  labels,   \* store: the labels (tables) that exist in the graph
  vrows,    \* store: vertex records
  erows,    \* store: edge records
  nextId,   \* store: the next identity the store assigns
  last,     \* the last call: its arguments, outcome, statements and events
  query,    \* the Query builder object: its accumulated state
  declared, \* the model classes declared so far, beyond those of conftest
  label_registry  \* AgeModel._label_registry: label -> class

vars == <<ent, labels, vrows, erows, nextId, last, query, declared,
         label_registry>>

(***************************************************************************)
(* Statements and call records.                                            *)
(***************************************************************************)
\* a statement handed to the transport: its kind, the label it names, the
\* identities it names and the property keys it assigns
Stmt(k, lab, x, y, keys) == [k |-> k, lab |-> lab, x |-> x, y |-> y, keys |-> keys]

\* an object that has not been created yet
NoEnt ==
  [live |-> FALSE, cls |-> "", graph_id |-> NoId, db |-> NoneH, graph |-> NoneH,
   dirty |-> {}, data |-> <<>>, refs_vals |-> <<>>, start_id |-> NoId,
   end_id |-> NoId]

\* the arguments of a call
NoArg == [attr |-> "-", only_dirty |-> FALSE, from |-> "-", to |-> "-", list |-> <<>>]

\* the record of a call: operation, target object, arguments, outcome ("ok" or
\* the exception raised), the statements executed and the events dispatched,
\* in order, and the value returned by a relationship access
Call(op, e, arg, out, stmts, events, ret) ==
  [op |-> op, e |-> e, arg |-> arg, out |-> out, stmts |-> stmts,
   events |-> events, ret |-> ret]

Vertices == {e \in Ents : IsVertex(ClassOf(e))}
Edges == Ents \ Vertices

(***************************************************************************)
(* AgeModel.__init__ / Edge.__init__                                       *)
(***************************************************************************)
\* no internal keyword argument
PlainKw ==
  [db |-> NoneH, graph |-> NoneH, graph_id |-> NoId, start_id |-> NoId,
   end_id |-> NoId]

\* the keyword arguments the constructor calls of the model carry: none; a
\* _db handle alone (tests/test_models.py: Person(..., _db=object())); the
\* graph's own _db and _graph ("or pass _db and _graph", base.py line 117)
Kwargs(e) ==
  IF e = "v1" THEN {PlainKw, [PlainKw EXCEPT !.db = OtherDb]}
  ELSE {PlainKw, [PlainKw EXCEPT !.db = TheDb, !.graph = TheGraph]}

InitialDirty_AllFields(cls, db) == AgeFields(cls)
\* "new objects start fully dirty, DB-loaded objects start clean"
InitialDirty(cls, db) == IF db # NoneH THEN {} ELSE AgeFields(cls)

\* the object __init__ leaves behind; props are the declared field values
NewEntity(cls, kw, props) ==
  [live |-> TRUE, cls |-> cls,
   graph_id |-> kw.graph_id, db |-> kw.db, graph |-> kw.graph,
   dirty |-> InitialDirty(cls, kw.db),
   data |-> [f \in AgeFields(cls) |-> props[f]],
   refs_vals |-> [s \in Refs(cls) |-> [has |-> FALSE, val |-> {}]],
   start_id |-> IF IsVertex(cls) THEN NoId ELSE kw.start_id,
   end_id |-> IF IsVertex(cls) THEN NoId ELSE kw.end_id]

Construct(e, kw) ==
  /\ ~ent[e].live
  /\ ent' = [ent EXCEPT ![e] =
               NewEntity(ClassOf(e), kw, [f \in AgeFields(ClassOf(e)) |-> InitVal])]
  /\ last' = Call("construct", e, NoArg, "ok", <<>>, <<>>, {})
  /\ UNCHANGED <<labels, vrows, erows, nextId, query, declared, label_registry>>

(***************************************************************************)
(* dict_to_model, as Graph._hydrate_result, Query and the relationship     *)
(* loader call it: on a record of the store, with the graph's binding.     *)
(***************************************************************************)
\* the parsed record of a store row: vertex rows carry no start_id / end_id
HasEndpoints(row) == row.kind = "e"

DictToModel(row, cls, db, graph) ==
  LET inst == NewEntity(cls, PlainKw, row.props)
  IN  [inst EXCEPT !.graph_id = row.id,
                   !.dirty = {},
                   !.db = db,
                   !.graph = graph,
                   !.start_id = IF HasEndpoints(row) THEN row.s ELSE @,
                   !.end_id = IF HasEndpoints(row) THEN row.t ELSE @]

Hydrate(e, row) ==
  /\ ~ent[e].live
  /\ row.lab = LabelOf(ClassOf(e))
  /\ ent' = [ent EXCEPT ![e] = DictToModel(row, ClassOf(e), TheDb, TheGraph)]
  /\ last' = Call("hydrate", e, NoArg, "ok", <<>>, <<>>, {})
  /\ UNCHANGED <<labels, vrows, erows, nextId, query, declared, label_registry>>

(***************************************************************************)
(* AgeModel.__setattr__                                                    *)
(***************************************************************************)
\* the dirty set after `entity.attr = value`
SetAttrDirty(r, attr) ==
  IF attr \in ModelFields(r.cls) /\ attr \notin Refs(r.cls)
  THEN r.dirty \cup {attr}
  ELSE r.dirty

\* super().__setattr__ stores the value of any declared field (the model
\* config sets neither validate_assignment nor frozen), then dirty tracking.
\* A value stored under a relationship-slot name is read by nothing:
\* __getattribute__ intercepts the name and model_dump excludes it, so data
\* keeps the persisted fields only.
SetAttrData(r, attr, v) ==
  IF attr \in AgeFields(r.cls) THEN [r.data EXCEPT ![attr] = v] ELSE r.data

SetAttr(e, attr, v) ==
  /\ ent[e].live
  /\ attr \in ModelFields(ent[e].cls)
  /\ ent' = [ent EXCEPT ![e].data = SetAttrData(ent[e], attr, v),
                        ![e].dirty = SetAttrDirty(ent[e], attr)]
  /\ last' = Call("setattr", e, [NoArg EXCEPT !.attr = attr], "ok",
                  <<>>, <<>>, {})
  /\ UNCHANGED <<labels, vrows, erows, nextId, query, declared, label_registry>>

(***************************************************************************)
(* The store, as the statements of graph.py act on it.                     *)
(***************************************************************************)
VRow(id, lab, props) ==
  [kind |-> "v", id |-> id, lab |-> lab, s |-> NoId, t |-> NoId, props |-> props]
ERow(id, lab, s, t, props) ==
  [kind |-> "e", id |-> id, lab |-> lab, s |-> s, t |-> t, props |-> props]

\* model_dump(mode="json"): the persisted fields only, never a slot
ModelDump(r) == [f \in AgeFields(r.cls) |-> r.data[f]]

\* dirty_fields_dump: the dumped fields that are in the dirty set
DirtyFieldsDump(r) == {k \in DOMAIN ModelDump(r) : k \in r.dirty}

\* MATCH (n) WHERE id(n) = id SET n.k = v, ...: (n) matches vertices
ApplySet(rows, id, keys, r) ==
  { IF row.id = id
    THEN [row EXCEPT !.props = [f \in DOMAIN row.props |->
                                  IF f \in keys THEN r.data[f] ELSE row.props[f]]]
    ELSE row : row \in rows }

\* Graph.ensure_label: the existence check, and the create when it is missing
EnsureLabelStmts(lab, kind) ==
  <<Stmt("LABEL_EXISTS", lab, NoId, NoId, {})>> \o
  (IF lab \in labels THEN <<>>
   ELSE <<Stmt(IF kind = "v" THEN "CREATE_VLABEL" ELSE "CREATE_ELABEL",
               lab, NoId, NoId, {})>>)

\* statements that run on the connection the statement before them
\* acquired: the create-label call inside ensure_label's `with` block (lines
\* 478-493) and the identity fetch inside the bulk inserts' (235-242,
\* 295-303); every other statement acquires its own (_execute_cypher, 80-81)
OnOpenConnection(k) == k \in {"CREATE_VLABEL", "CREATE_ELABEL", "SELECT_IDS"}

\* the acquisition of the call (first, second, ...) its i-th statement runs on
Acquisition(stmts, i) ==
  Cardinality({j \in 1..i : ~OnOpenConnection(stmts[j].k)})

(***************************************************************************)
(* Graph.add                                                               *)
(***************************************************************************)
\* what the transport can hand back for a statement that returns the created
\* record: the rows the statement produces, no row at all, or an exception
CreateResults == {"rows", "empty", "error"}
\* a statement whose rows are not read: it returns, or raises
PlainResults == {"rows", "error"}

\* lines 117-121: `if results:` bind identity, clear dirty, bind db / graph
AddBind(r, results) ==
  IF results # <<>>
  THEN [r EXCEPT !.graph_id = results[1], !.dirty = {},
                 !.db = TheDb, !.graph = TheGraph]
  ELSE r

\* the rows _execute_cypher returns for a create statement, each named by
\* its results[i].get("graph_id")
CreateRows(res, created, id) ==
  IF created /\ res = "rows" THEN <<id>> ELSE <<>>

Add(e, res) ==
  /\ ent[e].live
  /\ LET r == ent[e]
         lab == LabelOf(r.cls)
         stmts == EnsureLabelStmts(lab, "v") \o
                  <<Stmt("CREATE_V", lab, NoId, NoId, DOMAIN ModelDump(r))>>
         created == res = "rows"
         results == CreateRows(res, created, nextId)
     IN  /\ labels' = labels \cup {lab}
         /\ vrows' = IF created
                     THEN vrows \cup {VRow(nextId, lab, ModelDump(r))}
                     ELSE vrows
         /\ nextId' = IF created THEN nextId + 1 ELSE nextId
         /\ IF res = "error"
            THEN /\ ent' = ent
                 /\ last' = Call("add", e, NoArg,
                                 "TransportError", stmts, <<"pre_add">>, {})
            ELSE /\ ent' = [ent EXCEPT ![e] = AddBind(r, results)]
                 /\ last' = Call("add", e, NoArg, "ok",
                                 stmts, <<"pre_add", "post_add">>, {})
  /\ UNCHANGED <<erows, query, declared, label_registry>>

(***************************************************************************)
(* Graph.update                                                            *)
(***************************************************************************)
UpdateProps_AllFields(r, only_dirty) == DOMAIN ModelDump(r)
\* lines 133-136: the properties to write
UpdateProps(r, only_dirty) ==
  IF only_dirty THEN DirtyFieldsDump(r) ELSE DOMAIN ModelDump(r)

\* an update that marks the entity clean before its statement has run
Update_ClearFirst(e, only_dirty, res) ==
  /\ ent[e].live
  /\ LET r == ent[e]
         arg == [NoArg EXCEPT !.only_dirty = only_dirty]
         props == UpdateProps(r, only_dirty)
         stmt == Stmt("SET", "", r.graph_id, NoId, props)
     IN  IF r.graph_id = NoId
         THEN /\ last' = Call("update", e, arg, "EntityNotFoundError",
                              <<>>, <<>>, {})
              /\ UNCHANGED <<ent, vrows>>
         ELSE IF props = {}
         THEN /\ last' = Call("update", e, arg, "ok", <<>>,
                              <<"pre_update">>, {})
              /\ UNCHANGED <<ent, vrows>>
         ELSE IF res = "error"
         THEN /\ last' = Call("update", e, arg, "TransportError", <<stmt>>,
                              <<"pre_update">>, {})
              /\ ent' = [ent EXCEPT ![e].dirty = {}]
              /\ UNCHANGED vrows
         ELSE /\ vrows' = ApplySet(vrows, r.graph_id, props, r)
              /\ ent' = [ent EXCEPT ![e].dirty = {}]
              /\ last' = Call("update", e, arg, "ok", <<stmt>>,
                              <<"pre_update", "post_update">>, {})
  /\ UNCHANGED <<labels, erows, nextId, query, declared, label_registry>>

Update(e, only_dirty, res) ==
  /\ ent[e].live
  /\ LET r == ent[e]
         arg == [NoArg EXCEPT !.only_dirty = only_dirty]
         props == UpdateProps(r, only_dirty)
         stmt == Stmt("SET", "", r.graph_id, NoId, props)
     IN  IF r.graph_id = NoId
         THEN /\ last' = Call("update", e, arg, "EntityNotFoundError",
                              <<>>, <<>>, {})
              /\ UNCHANGED <<ent, vrows>>
         ELSE IF props = {}
         THEN /\ last' = Call("update", e, arg, "ok", <<>>,
                              <<"pre_update">>, {})
              /\ UNCHANGED <<ent, vrows>>
         ELSE IF res = "error"
         THEN /\ last' = Call("update", e, arg, "TransportError", <<stmt>>,
                              <<"pre_update">>, {})
              /\ UNCHANGED <<ent, vrows>>
         ELSE /\ vrows' = ApplySet(vrows, r.graph_id, props, r)
              /\ ent' = [ent EXCEPT ![e].dirty = {}]
              /\ last' = Call("update", e, arg, "ok", <<stmt>>,
                              <<"pre_update", "post_update">>, {})
  /\ UNCHANGED <<labels, erows, nextId, query, declared, label_registry>>

(***************************************************************************)
(* Graph.delete                                                            *)
(***************************************************************************)
\* lines 159-162: DETACH DELETE for a Vertex, DELETE of the edge otherwise
DeleteStmt(r) ==
  IF IsVertex(r.cls)
  THEN Stmt("DETACH_DELETE", "", r.graph_id, NoId, {})
  ELSE Stmt("DELETE_E", "", r.graph_id, NoId, {})

Detach_IdentityOnly(r) == [r EXCEPT !.graph_id = NoId]
\* lines 165-167: identity and binding cleared
Detach(r) == [r EXCEPT !.graph_id = NoId, !.db = NoneH, !.graph = NoneH]

Delete(e, res) ==
  /\ ent[e].live
  /\ LET r == ent[e]
         arg == NoArg
         stmt == DeleteStmt(r)
     IN  IF r.graph_id = NoId
         THEN /\ last' = Call("delete", e, arg, "EntityNotFoundError",
                              <<>>, <<>>, {})
              /\ UNCHANGED <<ent, vrows, erows>>
         ELSE IF res = "error"
         THEN /\ last' = Call("delete", e, arg, "TransportError", <<stmt>>,
                              <<"pre_delete">>, {})
              /\ UNCHANGED <<ent, vrows, erows>>
         ELSE /\ IF stmt.k = "DETACH_DELETE"
                 THEN /\ vrows' = {row \in vrows : row.id # stmt.x}
                      /\ erows' = IF \E row \in vrows : row.id = stmt.x
                                  THEN {row \in erows :
                                          row.s # stmt.x /\ row.t # stmt.x}
                                  ELSE erows
                 ELSE /\ vrows' = vrows
                      /\ erows' = {row \in erows : row.id # stmt.x}
              /\ ent' = [ent EXCEPT ![e] = Detach(r)]
              /\ last' = Call("delete", e, arg, "ok", <<stmt>>,
                              <<"pre_delete", "post_delete">>, {})
  /\ UNCHANGED <<labels, nextId, query, declared, label_registry>>

(***************************************************************************)
(* Graph.connect                                                           *)
(***************************************************************************)
Unpersisted_FromOnly(from_id, to_id) == from_id = NoId
\* lines 176 and 277: `from_v.graph_id is None or to_v.graph_id is None`
Unpersisted(from_id, to_id) == from_id = NoId \/ to_id = NoId

\* lines 192-198: `if results:` bind identity, endpoints, dirty, db / graph
ConnectBind(r, results, from_id, to_id) ==
  IF results # <<>>
  THEN [r EXCEPT !.graph_id = results[1], !.start_id = from_id,
                 !.end_id = to_id, !.dirty = {},
                 !.db = TheDb, !.graph = TheGraph]
  ELSE r

Connect(f, e, t, res) ==
  /\ ent[f].live /\ ent[e].live /\ ent[t].live
  /\ LET r == ent[e]
         lab == LabelOf(r.cls)
         arg == [NoArg EXCEPT !.from = f, !.to = t]
         from_id == ent[f].graph_id
         to_id == ent[t].graph_id
         stmts == EnsureLabelStmts(lab, "e") \o
                  <<Stmt("CREATE_E", lab, from_id, to_id, DOMAIN ModelDump(r))>>
         \* MATCH (a), (b) WHERE id(a) = .. AND id(b) = ..: both must exist
         matched == /\ \E row \in vrows : row.id = from_id
                    /\ \E row \in vrows : row.id = to_id
         created == res = "rows" /\ matched
         results == CreateRows(res, created, nextId)
     IN  IF Unpersisted(from_id, to_id)
         THEN /\ last' = Call("connect", e, arg, "EntityNotFoundError",
                              <<>>, <<>>, {})
              /\ UNCHANGED <<ent, labels, erows, nextId>>
         ELSE /\ labels' = labels \cup {lab}
              /\ erows' = IF created
                          THEN erows \cup
                               {ERow(nextId, lab, from_id, to_id, ModelDump(r))}
                          ELSE erows
              /\ nextId' = IF created THEN nextId + 1 ELSE nextId
              /\ IF res = "error"
                 THEN /\ ent' = ent
                      /\ last' = Call("connect", e, arg, "TransportError",
                                      stmts, <<"pre_add">>, {})
                 ELSE /\ ent' = [ent EXCEPT ![e] =
                                   ConnectBind(r, results, from_id, to_id)]
                      /\ last' = Call("connect", e, arg, "ok", stmts,
                                      <<"pre_add", "post_add">>, {})
  /\ UNCHANGED <<vrows, query, declared, label_registry>>

(***************************************************************************)
(* AgeModel.__getattribute__ on a relationship slot                        *)
(***************************************************************************)
\* MATCH (n)-[:edge_label]->(m:target_label) WHERE id(n) = id RETURN m
\* (the hydrated targets, named by their identities)
Traverse(id, slot) ==
  { row.t : row \in { x \in erows :
                        /\ x.s = id
                        /\ x.lab = RelEdgeLabel(slot)
                        /\ \E m \in vrows :
                             m.id = x.t /\ m.lab = RelTargetLabel(slot) } }

GetRelPath_BindingOnly(r, slot) ==
  IF r.db = NoneH \/ r.graph = NoneH THEN "detached" ELSE "load"
\* lines 109-119: what the access does before any statement is built:
\* "cached" returns the stored value, "detached" raises, "load" goes on
GetRelPath(r, slot) ==
  IF r.refs_vals[slot].has THEN "cached"
  ELSE IF r.db = NoneH \/ r.graph = NoneH THEN "detached"
  ELSE "load"

GetRel(e, slot, res) ==
  /\ ent[e].live
  /\ slot \in Refs(ent[e].cls)
  /\ LET r == ent[e]
         arg == [NoArg EXCEPT !.attr = slot]
         path == GetRelPath(r, slot)
         stmt == Stmt("TRAVERSE", RelEdgeLabel(slot), r.graph_id, NoId, {})
         r_val == Traverse(r.graph_id, slot)
     IN  IF path = "cached"
         THEN /\ last' = Call("getrel", e, arg, "ok", <<>>, <<>>,
                              r.refs_vals[slot].val)
              /\ ent' = ent
         ELSE IF path = "detached"
         THEN /\ last' = Call("getrel", e, arg, "DetachedInstanceError",
                              <<>>, <<>>, {})
              /\ ent' = ent
         ELSE IF res = "error"
         THEN /\ last' = Call("getrel", e, arg, "TransportError", <<stmt>>,
                              <<>>, {})
              /\ ent' = ent
         ELSE /\ last' = Call("getrel", e, arg, "ok", <<stmt>>, <<>>, r_val)
              /\ ent' = IF RelCache(slot)
                        THEN [ent EXCEPT ![e].refs_vals[slot] =
                                [has |-> TRUE, val |-> r_val]]
                        ELSE ent
  /\ UNCHANGED <<labels, vrows, erows, nextId, query, declared, label_registry>>

(***************************************************************************)
(* Graph.bulk_add / Graph.bulk_add_edges                                   *)
(***************************************************************************)
\* the identities of a table in ascending order
RECURSIVE Ascending(_)
Ascending(S) ==
  IF S = {} THEN <<>>
  ELSE LET m == CHOOSE x \in S : \A y \in S : x <= y
       IN  <<m>> \o Ascending(S \ {m})

\* the fetched rows left in the order the SELECT returns them (descending)
LastIds_NoReverse(ids, n) ==
  LET asc == Ascending(ids)
      k == IF Len(asc) < n THEN Len(asc) ELSE n
  IN  [i \in 1..k |-> asc[Len(asc) - i + 1]]

\* SELECT id FROM label ORDER BY id DESC LIMIT n, then rows.reverse()
LastIds(ids, n) ==
  LET asc == Ascending(ids)
      k == IF Len(asc) < n THEN Len(asc) ELSE n
  IN  SubSeq(asc, Len(asc) - k + 1, Len(asc))

\* the index of the last pair of zip(entities, rows) that names object e
\* (0 when none does): the loop's later assignments overwrite earlier ones
LastIndex(seq, e, n) ==
  LET idx == {i \in 1..n : seq[i] = e}
  IN  IF idx = {} THEN 0 ELSE CHOOSE i \in idx : \A j \in idx : j <= i

\* all argument lists over S of length 0..MaxBulk
Lists(S) == UNION {[1..n -> S] : n \in 0..MaxBulk}

BulkAdd(list, res) ==
  /\ \A i \in 1..Len(list) : ent[list[i]].live
  /\ IF list = <<>>
     THEN /\ last' = Call("bulk_add", "-", [NoArg EXCEPT !.list = list], "ok", <<>>, <<>>, {})
          /\ UNCHANGED <<ent, labels, vrows, nextId>>
     ELSE LET n == Len(list)
              lab == LabelOf(ent[list[1]].cls)
              insert == Stmt("INSERT_V", lab, n, NoId, {})
              select == Stmt("SELECT_IDS", lab, n, NoId, {})
              newrows == {VRow(nextId + i - 1, lab, ModelDump(ent[list[i]])) :
                            i \in 1..n}
              table == {row.id : row \in {x \in vrows \cup newrows : x.lab = lab}}
              rows == LastIds(table, n)
              zipped == IF Len(rows) < n THEN Len(rows) ELSE n
          IN  /\ labels' = labels \cup {lab}
              /\ IF res = "error"
                 THEN /\ last' = Call("bulk_add", "-", [NoArg EXCEPT !.list = list], "TransportError",
                                      EnsureLabelStmts(lab, "v") \o <<insert>>,
                                      <<>>, {})
                      /\ UNCHANGED <<ent, vrows, nextId>>
                 ELSE /\ vrows' = vrows \cup newrows
                      /\ nextId' = nextId + n
                      /\ ent' = [e \in Ents |->
                                   LET i == LastIndex(list, e, zipped)
                                   IN  IF i = 0 THEN ent[e]
                                       ELSE [ent[e] EXCEPT
                                               !.graph_id = rows[i],
                                               !.dirty = {},
                                               !.db = TheDb,
                                               !.graph = TheGraph]]
                      /\ last' = Call("bulk_add", "-", [NoArg EXCEPT !.list = list], "ok",
                                      EnsureLabelStmts(lab, "v") \o
                                      <<insert, select>>, <<>>, {})
  /\ UNCHANGED <<erows, query, declared, label_registry>>

\* the first triple of the loop with an unpersisted endpoint (0 when none)
FirstUnpersisted(triples) ==
  LET bad == {i \in 1..Len(triples) :
                Unpersisted(ent[triples[i][1]].graph_id,
                            ent[triples[i][3]].graph_id)}
  IN  IF bad = {} THEN 0 ELSE CHOOSE i \in bad : \A j \in bad : i <= j

BulkAddEdges(triples, res) ==
  /\ \A i \in 1..Len(triples) : \A k \in 1..3 : ent[triples[i][k]].live
  /\ IF triples = <<>>
     THEN /\ last' = Call("bulk_add_edges", "-", [NoArg EXCEPT !.list = triples], "ok", <<>>, <<>>, {})
          /\ UNCHANGED <<ent, labels, erows, nextId>>
     ELSE LET n == Len(triples)
              lab == LabelOf(ent[triples[1][2]].cls)
              insert == Stmt("INSERT_E", lab, n, NoId, {})
              select == Stmt("SELECT_IDS", lab, n, NoId, {})
              newrows == {ERow(nextId + i - 1, lab,
                               ent[triples[i][1]].graph_id,
                               ent[triples[i][3]].graph_id,
                               ModelDump(ent[triples[i][2]])) : i \in 1..n}
              table == {row.id : row \in {x \in erows \cup newrows : x.lab = lab}}
              rows == LastIds(table, n)
              zipped == IF Len(rows) < n THEN Len(rows) ELSE n
              edges == [i \in 1..n |-> triples[i][2]]
          IN  /\ labels' = labels \cup {lab}
              /\ IF FirstUnpersisted(triples) # 0
                 THEN /\ last' = Call("bulk_add_edges", "-", [NoArg EXCEPT !.list = triples],
                                      "EntityNotFoundError",
                                      EnsureLabelStmts(lab, "e"), <<>>, {})
                      /\ UNCHANGED <<ent, erows, nextId>>
                 ELSE IF res = "error"
                 THEN /\ last' = Call("bulk_add_edges", "-", [NoArg EXCEPT !.list = triples],
                                      "TransportError",
                                      EnsureLabelStmts(lab, "e") \o <<insert>>,
                                      <<>>, {})
                      /\ UNCHANGED <<ent, erows, nextId>>
                 ELSE /\ erows' = erows \cup newrows
                      /\ nextId' = nextId + n
                      /\ ent' = [e \in Ents |->
                                   LET i == LastIndex(edges, e, zipped)
                                   IN  IF i = 0 THEN ent[e]
                                       ELSE [ent[e] EXCEPT
                                               !.graph_id = rows[i],
                                               !.start_id =
                                                  ent[triples[i][1]].graph_id,
                                               !.end_id =
                                                  ent[triples[i][3]].graph_id,
                                               !.dirty = {},
                                               !.db = TheDb,
                                               !.graph = TheGraph]]
                      /\ last' = Call("bulk_add_edges", "-", [NoArg EXCEPT !.list = triples], "ok",
                                      EnsureLabelStmts(lab, "e") \o
                                      <<insert, select>>, <<>>, {})
  /\ UNCHANGED <<vrows, query, declared, label_registry>>

(***************************************************************************)
(* Query: the builder state (query/builder.py)                             *)
(***************************************************************************)
\* self._limit = None
NoLimit == -1

\* Query.__init__: no filter, no sort key, no limit, skip 0, no projection,
\* no bind variable
NewQuery ==
  [filters |-> <<>>, sort_columns |-> <<>>, limit |-> NoLimit, skip |-> 0,
   return_fields |-> <<>>, bind_vars |-> [k \in {} |-> 0]]

\* the joiner of a new filter: None for the first, else OR / AND
Joiner(q, or) == IF q.filters = <<>> THEN "None" ELSE IF or THEN "OR" ELSE "AND"

\* dict.update(kwargs)
UpdateVars(vs, kwargs) ==
  [k \in DOMAIN vs \cup DOMAIN kwargs |->
     IF k \in DOMAIN kwargs THEN kwargs[k] ELSE vs[k]]

\* Query.filter("n.<field> = $<var>", _or, <var>=value); filter_by(<field>=
\* value) is the call with var = field
Filter(q, field, var, value, or) ==
  [q EXCEPT !.filters = Append(@, [field |-> field, var |-> var,
                                   joiner |-> Joiner(q, or)]),
            !.bind_vars = UpdateVars(@, [k \in {var} |-> value])]

\* Query.sort / Query.limit / Query.returns
Sort(q, field) == [q EXCEPT !.sort_columns = Append(@, field)]
Limit(q, count, skip) == [q EXCEPT !.limit = count, !.skip = skip]
Returns(q, fields) == [q EXCEPT !.return_fields = fields]

\* one part of the WHERE clause after substitute_cypher_params: the joiner,
\* the field compared and the literal its placeholder was replaced by
WherePart(q, i) ==
  [joiner |-> q.filters[i].joiner, field |-> q.filters[i].field,
   value |-> q.bind_vars[q.filters[i].var]]

\* a clause of the statement text
Clause(c, v) == [c |-> c, v |-> v]

\* Query._build_match_where
BuildMatchWhere(q, label) ==
  <<Clause("MATCH", <<label>>)>> \o
  (IF q.filters # <<>>
   THEN <<Clause("WHERE", [i \in 1..Len(q.filters) |-> WherePart(q, i)])>>
   ELSE <<>>)

BuildCypher_LimitBeforeSkip(q, label) ==
  BuildMatchWhere(q, label) \o
  <<Clause("RETURN", IF q.return_fields # <<>> THEN q.return_fields ELSE <<"n">>)>> \o
  (IF q.sort_columns # <<>>
   THEN <<Clause("ORDER BY", q.sort_columns)>> ELSE <<>>) \o
  (IF q.limit # NoLimit THEN <<Clause("LIMIT", <<q.limit>>)>> ELSE <<>>) \o
  (IF q.skip > 0 THEN <<Clause("SKIP", <<q.skip>>)>> ELSE <<>>)
\* Query._build_cypher
BuildCypher(q, label) ==
  BuildMatchWhere(q, label) \o
  (IF q.return_fields # <<>>
   THEN <<Clause("RETURN", q.return_fields)>>
   ELSE <<Clause("RETURN", <<"n">>)>>) \o
  (IF q.sort_columns # <<>>
   THEN <<Clause("ORDER BY", q.sort_columns)>> ELSE <<>>) \o
  (IF q.skip > 0 THEN <<Clause("SKIP", <<q.skip>>)>> ELSE <<>>) \o
  (IF q.limit # NoLimit THEN <<Clause("LIMIT", <<q.limit>>)>> ELSE <<>>)

\* the builder calls, and str(query)
QFilter(field, var, value, or) ==
  /\ query' = Filter(query, field, var, value, or)
  /\ last' = Call("filter", "-", [NoArg EXCEPT !.attr = var], "ok", <<>>, <<>>, {})
  /\ UNCHANGED <<ent, labels, vrows, erows, nextId, declared, label_registry>>

QSort(field) ==
  /\ query' = Sort(query, field)
  /\ last' = Call("sort", "-", [NoArg EXCEPT !.attr = field], "ok", <<>>, <<>>, {})
  /\ UNCHANGED <<ent, labels, vrows, erows, nextId, declared, label_registry>>

QLimit(count, skip) ==
  /\ query' = Limit(query, count, skip)
  /\ last' = Call("limit", "-", NoArg, "ok", <<>>, <<>>, {})
  /\ UNCHANGED <<ent, labels, vrows, erows, nextId, declared, label_registry>>

QReturns(fields) ==
  /\ query' = Returns(query, fields)
  /\ last' = Call("returns", "-", NoArg, "ok", <<>>, <<>>, {})
  /\ UNCHANGED <<ent, labels, vrows, erows, nextId, declared, label_registry>>

\* str(query): the statement text is built and returned, nothing is executed
QStr ==
  /\ last' = Call("str", "-", NoArg, "ok", <<>>, <<>>,
                  {BuildCypher(query, LabelOf("PersonWithRels"))})
  /\ UNCHANGED <<ent, labels, vrows, erows, nextId, query,
                 declared, label_registry>>

(***************************************************************************)
(* Query: execution against the store                                      *)
(***************************************************************************)
\* a statement built by the Query: its kind and its text
QStmt(k, text) == [k |-> k, text |-> text]

\* the WHERE clause on a record: AND binds tighter than OR, so the parts
\* fall into groups that start at the first part and at every OR
Where(row, q) ==
  LET n == Len(q.filters)
      holds(i) == row.props[WherePart(q, i).field] = WherePart(q, i).value
      start(i) == CHOOSE j \in 1..i :
                    /\ j = 1 \/ q.filters[j].joiner = "OR"
                    /\ \A k \in (j + 1)..i : q.filters[k].joiner # "OR"
      group(i) == {k \in 1..n : start(k) = start(i)}
  IN  n = 0 \/ \E i \in 1..n : \A k \in group(i) : holds(k)

\* MATCH (n:label) WHERE ...: the records of the label the predicate selects
Matching(q, label) == {row \in vrows : row.lab = label /\ Where(row, q)}

\* the records the full statement yields, named by identity: the matching
\* ones in identity order, after SKIP and LIMIT
QueryResults(q, label) ==
  LET ids == Ascending({row.id : row \in Matching(q, label)})
      from == q.skip + 1
      upto == IF q.limit = NoLimit \/ q.skip + q.limit > Len(ids)
              THEN Len(ids) ELSE q.skip + q.limit
  IN  SubSeq(ids, from, upto)

\* the class the Query was made for
QueryLabel == LabelOf("PersonWithRels")

\* Query.first
QFirst(res) ==
  LET original_limit == query.limit
      forced == [query EXCEPT !.limit = 1]
      stmt == QStmt("MATCH", BuildCypher(forced, QueryLabel))
      results == QueryResults(forced, QueryLabel)
  IN  /\ IF res = "error"
         THEN /\ query' = forced
              /\ last' = Call("first", "-", NoArg, "TransportError", <<stmt>>,
                              <<>>, {})
         ELSE /\ query' = [forced EXCEPT !.limit = original_limit]
              /\ last' = Call("first", "-", NoArg, "ok", <<stmt>>, <<>>,
                              IF results # <<>> THEN {results[1]} ELSE {})
      /\ UNCHANGED <<ent, labels, vrows, erows, nextId,
                     declared, label_registry>>

\* a one() that takes the first record whenever there is any
QOne_FirstOfMany(res) ==
  LET stmt == QStmt("MATCH", BuildCypher(query, QueryLabel))
      results == QueryResults(query, QueryLabel)
      out == IF res = "error" THEN "TransportError"
             ELSE IF Len(results) = 0 THEN "EntityNotFoundError"
             ELSE "ok"
  IN  /\ last' = Call("one", "-", NoArg, out, <<stmt>>, <<>>,
                      IF out = "ok" THEN {results[1]} ELSE {})
      /\ UNCHANGED <<ent, labels, vrows, erows, nextId, query,
                     declared, label_registry>>

\* Query.one
QOne(res) ==
  LET stmt == QStmt("MATCH", BuildCypher(query, QueryLabel))
      results == QueryResults(query, QueryLabel)
      out == IF res = "error" THEN "TransportError"
             ELSE IF Len(results) = 0 THEN "EntityNotFoundError"
             ELSE IF Len(results) > 1 THEN "MultipleResultsError"
             ELSE "ok"
  IN  /\ last' = Call("one", "-", NoArg, out, <<stmt>>, <<>>,
                      IF out = "ok" THEN {results[1]} ELSE {})
      /\ UNCHANGED <<ent, labels, vrows, erows, nextId, query,
                     declared, label_registry>>

\* Query.delete, first statement: count() over the filter predicate; the
\* call then waits to issue its delete statement, holding the records it
\* counted (the number it will return is how many they are)
QDeleteCount(res) ==
  LET match_where == BuildMatchWhere(query, QueryLabel)
      count == QStmt("COUNT", match_where)
  IN  /\ last' = IF res = "error"
                 THEN Call("qdelete", "-", NoArg, "TransportError", <<count>>,
                           <<>>, {})
                 ELSE Call("qdelete", "-", NoArg, "pending", <<count>>, <<>>,
                           {row.id : row \in Matching(query, QueryLabel)})
      /\ UNCHANGED <<ent, labels, vrows, erows, nextId, query,
                     declared, label_registry>>

\* Query.delete, second statement: DETACH DELETE over the same predicate
QDeleteRun(res) ==
  /\ last.op = "qdelete" /\ last.out = "pending"
  /\ LET match_where == BuildMatchWhere(query, QueryLabel)
         delete == QStmt("DETACH_DELETE", match_where)
         gone == {row.id : row \in Matching(query, QueryLabel)}
     IN  IF res = "error"
         THEN /\ last' = [last EXCEPT !.out = "TransportError",
                                      !.stmts = Append(@, delete), !.ret = {}]
              /\ UNCHANGED <<vrows, erows>>
         ELSE /\ vrows' = {row \in vrows : row.id \notin gone}
              /\ erows' = {row \in erows : row.s \notin gone /\ row.t \notin gone}
              /\ last' = [last EXCEPT !.out = "ok", !.stmts = Append(@, delete)]
  /\ UNCHANGED <<ent, labels, nextId, query, declared, label_registry>>

\* another writer (another connection) creates or deletes a record of the
\* label; the call in progress, if any, does not see it happen
OtherInsert(lab, props) ==
  /\ vrows' = vrows \cup {VRow(nextId, lab, props)}
  /\ nextId' = nextId + 1
  /\ labels' = labels \cup {lab}
  /\ UNCHANGED <<ent, erows, last, query, declared, label_registry>>

OtherDelete(id) ==
  /\ \E row \in vrows : row.id = id
  /\ vrows' = {row \in vrows : row.id # id}
  /\ erows' = {row \in erows : row.s # id /\ row.t # id}
  /\ UNCHANGED <<ent, labels, nextId, last, query, declared, label_registry>>

\* the caller is between calls (no call of its own is waiting on a statement)
Idle == last.out # "pending"

(***************************************************************************)
(* Graph.add statement by statement, with another caller in between        *)
(***************************************************************************)
\* add up to and including ensure_label's existence check (lines 109-110,
\* 478-483); ret holds the label when the check found it
AddCheck(e) ==
  /\ ent[e].live
  /\ LET lab == LabelOf(ent[e].cls)
     IN  last' = Call("add", e, NoArg, "pending",
                      <<Stmt("LABEL_EXISTS", lab, NoId, NoId, {})>>,
                      <<"pre_add">>, {lab} \cap labels)
  /\ UNCHANGED <<ent, labels, vrows, erows, nextId, query, declared,
                 label_registry>>

\* add from `if row is None:` on (lines 485-493, 112-124): the create-label
\* statement when the check found no label, which the store refuses when the
\* label exists by now, then the CREATE statement and the binding
AddFinish ==
  /\ last.op = "add" /\ last.out = "pending"
  /\ LET e == last.e
         r == ent[e]
         lab == LabelOf(r.cls)
         createLabel == Stmt("CREATE_VLABEL", lab, NoId, NoId, {})
         create == Stmt("CREATE_V", lab, NoId, NoId, DOMAIN ModelDump(r))
     IN  IF last.ret = {} /\ lab \in labels
         THEN /\ last' = [last EXCEPT !.out = "TransportError",
                                      !.stmts = Append(@, createLabel)]
              /\ UNCHANGED <<ent, labels, vrows, nextId>>
         ELSE /\ labels' = labels \cup {lab}
              /\ vrows' = vrows \cup {VRow(nextId, lab, ModelDump(r))}
              /\ nextId' = nextId + 1
              /\ ent' = [ent EXCEPT ![e] = AddBind(r, <<nextId>>)]
              /\ last' = [last EXCEPT
                            !.out = "ok",
                            !.stmts = @ \o (IF last.ret = {}
                                            THEN <<createLabel>> ELSE <<>>)
                                       \o <<create>>,
                            !.events = Append(@, "post_add")]
  /\ UNCHANGED <<erows, query, declared, label_registry>>

\* the add of another caller (another thread, its own entity), start to end
OtherAdd(lab, props) ==
  /\ labels' = labels \cup {lab}
  /\ vrows' = vrows \cup {VRow(nextId, lab, props)}
  /\ nextId' = nextId + 1
  /\ UNCHANGED <<ent, erows, last, query, declared, label_registry>>

(***************************************************************************)
(* Graph.bulk_add statement by statement, with other writers in between    *)
(***************************************************************************)
\* bulk_add up to and including its INSERT statement (lines 215-236); the
\* call then holds its connection, about to fetch the identities; ret is the
\* identities of the records it inserted, in argument order
BulkAddInsert(list, res) ==
  /\ list # <<>>
  /\ \A i \in 1..Len(list) : ent[list[i]].live
  /\ LET n == Len(list)
         lab == LabelOf(ent[list[1]].cls)
         insert == Stmt("INSERT_V", lab, n, NoId, {})
         arg == [NoArg EXCEPT !.list = list]
     IN  /\ labels' = labels \cup {lab}
         /\ IF res = "error"
            THEN /\ last' = Call("bulk_add", "-", arg, "TransportError",
                                 EnsureLabelStmts(lab, "v") \o <<insert>>,
                                 <<>>, <<>>)
                 /\ UNCHANGED <<vrows, nextId>>
            ELSE /\ vrows' = vrows \cup
                             {VRow(nextId + i - 1, lab, ModelDump(ent[list[i]])) :
                                i \in 1..n}
                 /\ nextId' = nextId + n
                 /\ last' = Call("bulk_add", "-", arg, "pending",
                                 EnsureLabelStmts(lab, "v") \o <<insert>>,
                                 <<>>, [i \in 1..n |-> nextId + i - 1])
  /\ UNCHANGED <<ent, erows, query, declared, label_registry>>

\* bulk_add from its SELECT statement on (lines 238-253); when the statement
\* raises, the connection block is left by the exception and the insert of
\* the open transaction is rolled back
BulkAddFetch(res) ==
  /\ last.op = "bulk_add" /\ last.out = "pending"
  /\ LET list == last.arg.list
         n == Len(list)
         lab == LabelOf(ent[list[1]].cls)
         select == Stmt("SELECT_IDS", lab, n, NoId, {})
         table == {row.id : row \in {x \in vrows : x.lab = lab}}
         rows == LastIds(table, n)
         zipped == IF Len(rows) < n THEN Len(rows) ELSE n
         own == {last.ret[i] : i \in 1..n}
     IN  IF res = "error"
         THEN /\ vrows' = {row \in vrows : row.id \notin own}
              /\ last' = [last EXCEPT !.out = "TransportError",
                                      !.stmts = Append(@, select)]
              /\ UNCHANGED ent
         ELSE /\ ent' = [e \in Ents |->
                           LET i == LastIndex(list, e, zipped)
                           IN  IF i = 0 THEN ent[e]
                               ELSE [ent[e] EXCEPT !.graph_id = rows[i],
                                                   !.dirty = {},
                                                   !.db = TheDb,
                                                   !.graph = TheGraph]]
              /\ last' = [last EXCEPT !.out = "ok",
                                      !.stmts = Append(@, select)]
              /\ UNCHANGED vrows
  /\ UNCHANGED <<labels, erows, nextId, query, declared, label_registry>>

(***************************************************************************)
(* The label registry (AgeModel.__init_subclass__) and Graph.cypher        *)
(***************************************************************************)
\* `__label__ = None` on AgeModel, Vertex and Edge
NoLabel == "None"

\* classes a program declares after import: Widget declares a label, Gadget
\* declares the same label again, WidgetChild subclasses Widget and declares
\* none, Gizmo declares its own and Thing declares none
NewTypes == {"Widget", "Gadget", "WidgetChild", "Gizmo", "Thing"}

\* the base class named in the class statement
ParentOf(cls) == IF cls = "WidgetChild" THEN "Widget" ELSE "Vertex"

\* the `__label__` assignment in the class body, if any
OwnLabel(cls) ==
  CASE cls \in {"Widget", "Gadget"} -> "Widget"
    [] cls = "Gizmo" -> "Gizmo"
    [] OTHER -> NoLabel

\* getattr(cls, "__label__", None): the class's own attribute, else the
\* nearest base class's
RECURSIVE GetLabel(_)
GetLabel(cls) ==
  IF cls = "Vertex" THEN NoLabel
  ELSE IF OwnLabel(cls) # NoLabel THEN OwnLabel(cls)
  ELSE GetLabel(ParentOf(cls))

\* dict assignment d[k] = v
SetItem(d, k, v) == [x \in DOMAIN d \cup {k} |-> IF x = k THEN v ELSE d[x]]

\* the registry once the modules that declare PersonWithRels and Knows are
\* imported
ImportedRegistry ==
  [l \in {LabelOf("PersonWithRels"), LabelOf("Knows")} |->
     IF l = LabelOf("Knows") THEN "Knows" ELSE "PersonWithRels"]

\* a class statement runs: AgeModel.__init_subclass__(cls)
DeclareClass(cls) ==
  /\ cls \notin declared
  /\ ParentOf(cls) \in declared \cup {"Vertex"}
  /\ declared' = declared \cup {cls}
  /\ LET label == GetLabel(cls)
     IN  label_registry' = IF label # NoLabel
                           THEN SetItem(label_registry, label, cls)
                           ELSE label_registry
  /\ last' = Call("declare", cls, NoArg, "ok", <<>>, <<>>, {})
  /\ UNCHANGED <<ent, labels, vrows, erows, nextId, query>>

\* AgeModel._label_registry.get(label)
RegistryGet(label) ==
  IF label \in DOMAIN label_registry THEN {label_registry[label]} ELSE {}

Lookup(label) ==
  /\ last' = Call("lookup", label, NoArg, "ok", <<>>, <<>>, RegistryGet(label))
  /\ UNCHANGED <<ent, labels, vrows, erows, nextId, query, declared,
                 label_registry>>

\* parsed result values (_parse_agtype_result): a scalar comes as a dict
\* with the one key `value`, a vertex as label / properties / graph_id
ValueCell(x) == [value |-> x]
ValueExtraCell(x) == [value |-> x, other |-> x]
VertexCell(label, id) ==
  [label |-> label, properties |-> [name |-> InitVal], graph_id |-> id]

\* _parse_results with several columns: one dict per row keyed col_0, col_1
ColKeys == <<"col_0", "col_1">>
ColRow(c0, c1) == [col_0 |-> c0, col_1 |-> c1]

\* dict_to_model on a vertex dict: an instance of the registered class
ModelInstance(data, cls) ==
  [cls |-> cls, graph_id |-> data.graph_id, label |-> data.label,
   props |-> data.properties, db |-> TheDb, graph |-> TheGraph]

\* Graph._hydrate_result
RECURSIVE HydrateResult(_)
HydrateResult(data) ==
  IF \E k \in DOMAIN data : k \in {ColKeys[i] : i \in DOMAIN ColKeys}
  THEN [k \in DOMAIN data |-> HydrateResult(data[k])]
  ELSE IF "label" \notin DOMAIN data \/ "properties" \notin DOMAIN data
  THEN data
  ELSE IF RegistryGet(data.label) = {} THEN data
  ELSE ModelInstance(data, label_registry[data.label])

\* Graph.cypher(statement, columns=columns): `results` is what
\* _execute_cypher parsed (no columns is the empty list)
Cypher(results, columns) ==
  /\ last' = Call("cypher", "-", [results |-> results, columns |-> columns],
                  "ok", <<>>, <<>>,
                  [i \in DOMAIN results |-> HydrateResult(results[i])])
  /\ UNCHANGED <<ent, labels, vrows, erows, nextId, query, declared,
                 label_registry>>

(***************************************************************************)
(* substitute_cypher_params (utils/serialization.py); texts are sequences  *)
(* of characters                                                           *)
(***************************************************************************)
\* [a-zA-Z0-9_], the characters of the lookahead (the texts of the model
\* have no capitals)
IdentChars ==
  {"a", "b", "c", "d", "e", "f", "g", "h", "i", "j", "k", "l", "m", "n", "o",
   "p", "q", "r", "s", "t", "u", "v", "w", "x", "y", "z", "_",
   "0", "1", "2", "3", "4", "5", "6", "7", "8", "9"}

DigitChars == <<"0", "1", "2", "3", "4", "5", "6", "7", "8", "9">>

\* str(val) of a non-negative int
RECURSIVE IntStr(_)
IntStr(n) ==
  IF n < 10 THEN <<DigitChars[n + 1]>>
  ELSE IntStr(n \div 10) \o <<DigitChars[(n % 10) + 1]>>

\* val.replace("\\", "\\\\").replace("'", "\\'")
RECURSIVE Escaped(_)
Escaped(str) ==
  IF str = <<>> THEN <<>>
  ELSE (CASE Head(str) = "\\" -> <<"\\", "\\">>
          [] Head(str) = "'" -> <<"\\", "'">>
          [] OTHER -> <<Head(str)>>) \o Escaped(Tail(str))

\* Python values: an int or a str
IntVal(n) == [t |-> "int", v |-> n]
StrVal(str) == [t |-> "str", v |-> str]

\* format_cypher_value
FormatCypherValue(val) ==
  IF val.t = "int" THEN IntStr(val.v)
  ELSE <<"'">> \o Escaped(val.v) \o <<"'">>

\* the replacement string as pattern.sub expands it: an escaped backslash
\* becomes one backslash, a backslash before a quote stays (a backslash
\* before a letter or digit does not occur in format_cypher_value's output)
RECURSIVE ExpandTemplate(_)
ExpandTemplate(repl) ==
  IF repl = <<>> THEN <<>>
  ELSE IF Len(repl) >= 2 /\ repl[1] = "\\" /\ repl[2] = "\\"
  THEN <<"\\">> \o ExpandTemplate(SubSeq(repl, 3, Len(repl)))
  ELSE <<Head(repl)>> \o ExpandTemplate(Tail(repl))

\* the pattern \$key(?![a-zA-Z0-9_]) matches the text at position i
MatchesAt(text, i, key) ==
  /\ i + Len(key) <= Len(text)
  /\ text[i] = "$"
  /\ SubSeq(text, i + 1, i + Len(key)) = key
  /\ i + Len(key) = Len(text) \/ text[i + Len(key) + 1] \notin IdentChars

\* pattern.sub(repl, text): the matches left to right, each replaced; the
\* replaced text is not scanned again in the same pass
RECURSIVE PatternSub(_, _, _, _)
PatternSub(key, repl, text, i) ==
  IF i > Len(text) THEN <<>>
  ELSE IF MatchesAt(text, i, key)
  THEN ExpandTemplate(repl) \o PatternSub(key, repl, text, i + Len(key) + 1)
  ELSE <<text[i]>> \o PatternSub(key, repl, text, i + 1)

\* sorted(params.keys(), key=len, reverse=True): params is the dict as the
\* sequence of its items in insertion order; keys of equal length keep it
RECURSIVE SortedKeys(_)
SortedKeys(params) ==
  IF params = <<>> THEN <<>>
  ELSE LET longest == CHOOSE i \in DOMAIN params :
                        /\ \A j \in DOMAIN params :
                             Len(params[j].key) <= Len(params[i].key)
                        /\ \A j \in 1..(i - 1) :
                             Len(params[j].key) < Len(params[i].key)
           rest == [j \in 1..(Len(params) - 1) |->
                      IF j < longest THEN params[j] ELSE params[j + 1]]
       IN  <<params[longest]>> \o SortedKeys(rest)

\* the loop of lines 112-114 over the sorted items
RECURSIVE SubstituteAll(_, _)
SubstituteAll(result, items) ==
  IF items = <<>> THEN result
  ELSE SubstituteAll(PatternSub(Head(items).key,
                                FormatCypherValue(Head(items).val), result, 1),
                     Tail(items))

\* substitute_cypher_params
SubstituteCypherParams(cypher, params) ==
  IF params = <<>> THEN cypher
  ELSE SubstituteAll(cypher, SortedKeys(params))

\* Graph._execute_cypher, line 69: the statement text is resolved
Substitute(cypher, params) ==
  /\ last' = Call("substitute", "-", [cypher |-> cypher, params |-> params],
                  "ok", <<>>, <<>>, SubstituteCypherParams(cypher, params))
  /\ UNCHANGED <<ent, labels, vrows, erows, nextId, query, declared,
                 label_registry>>

(***************************************************************************)
(* The agtype value codec: to_agtype_value and _parse_agtype_result on     *)
(* character sequences.                                                    *)
(***************************************************************************)
\* Python values beside int and str: None, a bool, a list, and a dict as its
\* items <<key, value>> in insertion order
NoneVal == [t |-> "none", v |-> 0]
BoolVal(b) == [t |-> "bool", v |-> b]
ListVal(items) == [t |-> "list", v |-> items]
DictVal(items) == [t |-> "dict", v |-> items]

\* d[k] = v on the items of a dict
DictSet(items, k, v) ==
  IF \E i \in DOMAIN items : items[i][1] = k
  THEN [i \in DOMAIN items |-> IF items[i][1] = k THEN <<k, v>> ELSE items[i]]
  ELSE Append(items, <<k, v>>)

\* f"{code:04x}" of the characters below 0x20 other than \n, \r and \t that
\* the texts use
ControlHex == [c \in {"\f"} |-> <<"0", "0", "0", "c">>]

\* escape_agtype_string
RECURSIVE EscapeAgtypeString(_)
EscapeAgtypeString(s) ==
  IF s = <<>> THEN <<>>
  ELSE (CASE Head(s) = "\\" -> <<"\\", "\\">>
          [] Head(s) = "\"" -> <<"\\", "\"">>
          [] Head(s) = "\n" -> <<"\\", "n">>
          [] Head(s) = "\r" -> <<"\\", "r">>
          [] Head(s) = "\t" -> <<"\\", "t">>
          [] Head(s) \in DOMAIN ControlHex ->
               <<"\\", "u">> \o ControlHex[Head(s)]
          [] OTHER -> <<Head(s)>>) \o EscapeAgtypeString(Tail(s))

\* to_agtype_value (ints are non-negative, floats are not modelled)
RECURSIVE ToAgtypeValue(_)
ToAgtypeValue(val) ==
  LET RECURSIVE Join(_)
      \* ", ".join(texts)
      Join(texts) ==
        IF texts = <<>> THEN <<>>
        ELSE IF Len(texts) = 1 THEN texts[1]
        ELSE texts[1] \o <<",", " ">> \o Join(Tail(texts))
  IN  CASE val.t = "none" -> <<"n", "u", "l", "l">>
        [] val.t = "bool" ->
             IF val.v THEN <<"t", "r", "u", "e">>
             ELSE <<"f", "a", "l", "s", "e">>
        [] val.t = "int" -> IntStr(val.v)
        [] val.t = "str" -> <<"\"">> \o EscapeAgtypeString(val.v) \o <<"\"">>
        [] val.t = "list" ->
             <<"[">> \o Join([i \in DOMAIN val.v |-> ToAgtypeValue(val.v[i])])
               \o <<"]">>
        [] val.t = "dict" ->
             <<"{">>
               \o Join([i \in DOMAIN val.v |->
                          <<"\"">> \o val.v[i][1] \o <<"\"", ":", " ">>
                            \o ToAgtypeValue(val.v[i][2])])
               \o <<"}">>

\* json.loads(text): [ok, v] with ok false for a JSONDecodeError.  Numbers
\* are integers; no modelled text holds a fraction, an exponent, NaN,
\* Infinity, the escape \b or a \u escape of a character outside ControlHex.
JsonLoads(text) ==
  LET Ws == {" ", "\t", "\n", "\r"}
      Digits == {DigitChars[i] : i \in DOMAIN DigitChars}
      Unescape ==
        [c \in {"\"", "\\", "/", "n", "r", "t", "f"} |->
           CASE c = "n" -> "\n" [] c = "r" -> "\r" [] c = "t" -> "\t"
             [] c = "f" -> "\f" [] OTHER -> c]
      Fail == [ok |-> FALSE, v |-> NoneVal, next |-> 0]
      Ok(v, next) == [ok |-> TRUE, v |-> v, next |-> next]
      At(i) == IF i <= Len(text) THEN text[i] ELSE "EOF"
      Word(i, w) ==
        i + Len(w) - 1 <= Len(text) /\ SubSeq(text, i, i + Len(w) - 1) = w
      DigitVal(c) == CHOOSE d \in 0..9 : DigitChars[d + 1] = c
      RECURSIVE SkipWs(_), Chars(_), DigitsEnd(_), NatOf(_, _), Value(_),
                Items(_, _), Members(_, _)
      SkipWs(i) == IF At(i) \in Ws THEN SkipWs(i + 1) ELSE i
      DigitsEnd(i) == IF At(i) \in Digits THEN DigitsEnd(i + 1) ELSE i
      NatOf(i, j) ==
        IF i > j THEN 0 ELSE NatOf(i, j - 1) * 10 + DigitVal(text[j])
      \* the characters of a string from i up to its closing quote
      Chars(i) ==
        IF At(i) = "EOF" \/ At(i) \in {"\n", "\r", "\t", "\f"} THEN Fail
        ELSE IF At(i) = "\"" THEN Ok(<<>>, i + 1)
        ELSE IF At(i) = "\\"
        THEN IF At(i + 1) \in DOMAIN Unescape
             THEN LET rest == Chars(i + 2)
                  IN  IF rest.ok
                      THEN Ok(<<Unescape[At(i + 1)]>> \o rest.v, rest.next)
                      ELSE Fail
             ELSE IF /\ At(i + 1) = "u"
                     /\ i + 5 <= Len(text)
                     /\ \E c \in DOMAIN ControlHex :
                          ControlHex[c] = SubSeq(text, i + 2, i + 5)
             THEN LET rest == Chars(i + 6)
                      c == CHOOSE c \in DOMAIN ControlHex :
                             ControlHex[c] = SubSeq(text, i + 2, i + 5)
                  IN  IF rest.ok THEN Ok(<<c>> \o rest.v, rest.next) ELSE Fail
             ELSE Fail
        ELSE LET rest == Chars(i + 1)
             IN  IF rest.ok THEN Ok(<<At(i)>> \o rest.v, rest.next) ELSE Fail
      Number(i) ==
        LET first == IF At(i) = "-" THEN i + 1 ELSE i
            end == IF At(first) = "0" THEN first + 1 ELSE DigitsEnd(first)
        IN  IF end = first THEN Fail
            ELSE IF first = i THEN Ok(IntVal(NatOf(first, end - 1)), end)
            ELSE Ok(IntVal(0 - NatOf(first, end - 1)), end)
      Value(i) ==
        CASE At(i) = "\"" ->
               LET r == Chars(i + 1)
               IN  IF r.ok THEN Ok(StrVal(r.v), r.next) ELSE Fail
          [] At(i) = "{" ->
               IF At(SkipWs(i + 1)) = "}"
               THEN Ok(DictVal(<<>>), SkipWs(i + 1) + 1)
               ELSE Members(SkipWs(i + 1), <<>>)
          [] At(i) = "[" ->
               IF At(SkipWs(i + 1)) = "]"
               THEN Ok(ListVal(<<>>), SkipWs(i + 1) + 1)
               ELSE Items(SkipWs(i + 1), <<>>)
          [] Word(i, <<"n", "u", "l", "l">>) -> Ok(NoneVal, i + 4)
          [] Word(i, <<"t", "r", "u", "e">>) -> Ok(BoolVal(TRUE), i + 4)
          [] Word(i, <<"f", "a", "l", "s", "e">>) -> Ok(BoolVal(FALSE), i + 5)
          [] At(i) \in Digits \cup {"-"} -> Number(i)
          [] OTHER -> Fail
      Items(i, acc) ==
        LET r == Value(i)
            j == SkipWs(r.next)
        IN  IF ~r.ok THEN Fail
            ELSE IF At(j) = "," THEN Items(SkipWs(j + 1), Append(acc, r.v))
            ELSE IF At(j) = "]" THEN Ok(ListVal(Append(acc, r.v)), j + 1)
            ELSE Fail
      Members(i, acc) ==
        LET key == Chars(i + 1)
            j == SkipWs(key.next)
            r == Value(SkipWs(j + 1))
            m == SkipWs(r.next)
        IN  IF At(i) # "\"" \/ ~key.ok \/ At(j) # ":" \/ ~r.ok THEN Fail
            ELSE IF At(m) = ","
            THEN Members(SkipWs(m + 1), DictSet(acc, key.v, r.v))
            ELSE IF At(m) = "}"
            THEN Ok(DictVal(DictSet(acc, key.v, r.v)), m + 1)
            ELSE Fail
      top == Value(SkipWs(1))
  IN  IF top.ok /\ SkipWs(top.next) = Len(text) + 1
      THEN [ok |-> TRUE, v |-> top.v]
      ELSE [ok |-> FALSE, v |-> NoneVal]

\* str.strip()
RECURSIVE Strip(_)
Strip(text) ==
  LET Space == {" ", "\t", "\n", "\r", "\f"}
  IN  IF text = <<>> THEN <<>>
      ELSE IF Head(text) \in Space THEN Strip(Tail(text))
      ELSE IF text[Len(text)] \in Space
      THEN Strip(SubSeq(text, 1, Len(text) - 1))
      ELSE text

\* _parse_agtype_result, lines 731-737: the text with the type suffixes
\* removed, re.sub(r'([\]}])::\w+', r'\1', ...) then re.sub(r'::\w+$', '', ...)
StripSuffixes(val) ==
  LET Suffix(text, i) ==
        /\ i + 2 <= Len(text)
        /\ text[i] = ":" /\ text[i + 1] = ":" /\ text[i + 2] \in IdentChars
      RECURSIVE WordEnd(_, _), Bracketed(_, _)
      WordEnd(text, i) ==
        IF i <= Len(text) /\ text[i] \in IdentChars
        THEN WordEnd(text, i + 1) ELSE i
      Bracketed(text, i) ==
        IF i > Len(text) THEN <<>>
        ELSE IF text[i] \in {"]", "}"} /\ Suffix(text, i + 1)
        THEN <<text[i]>> \o Bracketed(text, WordEnd(text, i + 3))
        ELSE <<text[i]>> \o Bracketed(text, i + 1)
      Trailing(text) ==
        LET at == {i \in DOMAIN text :
                     Suffix(text, i) /\ WordEnd(text, i + 2) = Len(text) + 1}
        IN  IF at = {} THEN text
            ELSE SubSeq(text, 1, (CHOOSE i \in at : \A j \in at : i <= j) - 1)
  IN  Strip(Trailing(Bracketed(Strip(val), 1)))

\* _parse_agtype_result of a text cell (no modelled text is a float literal)
ParseAgtypeResult(val) ==
  LET val_str == StripSuffixes(val)
      parsed == JsonLoads(val_str)
      Id == <<"i", "d">>
      Properties == <<"p", "r", "o", "p", "e", "r", "t", "i", "e", "s">>
      Keys(d) == {d.v[i][1] : i \in DOMAIN d.v}
      IsRecord(d) == d.t = "dict" /\ Id \in Keys(d) /\ Properties \in Keys(d)
      \* parsed["graph_id"] = parsed.pop("id")
      Renamed(d) ==
        LET id == CHOOSE i \in DOMAIN d.v : d.v[i][1] = Id
        IN  DictVal(DictSet(SubSeq(d.v, 1, id - 1)
                              \o SubSeq(d.v, id + 1, Len(d.v)),
                            <<"g", "r", "a", "p", "h", "_", "i", "d">>,
                            d.v[id][2]))
      Value(v) == DictVal(<<<<(<<"v", "a", "l", "u", "e">>), v>>>>)
      digits == IF val_str # <<>> /\ val_str[1] \in {"-", "+"}
                THEN Tail(val_str) ELSE val_str
      RECURSIVE NatOf(_)
      NatOf(ds) ==
        IF ds = <<>> THEN 0
        ELSE NatOf(SubSeq(ds, 1, Len(ds) - 1)) * 10
               + (CHOOSE d \in 0..9 : DigitChars[d + 1] = ds[Len(ds)])
  IN  IF /\ \/ val_str # <<>> /\ val_str[1] \in {"{", "[", "\""}
            \/ val_str \in {<<"n", "u", "l", "l">>, <<"t", "r", "u", "e">>,
                            <<"f", "a", "l", "s", "e">>}
         /\ parsed.ok
      THEN IF parsed.v.t = "dict"
           THEN (IF IsRecord(parsed.v) THEN Renamed(parsed.v) ELSE parsed.v)
           ELSE IF parsed.v.t = "list"
           THEN Value(ListVal([i \in DOMAIN parsed.v.v |->
                                 IF IsRecord(parsed.v.v[i])
                                 THEN Renamed(parsed.v.v[i])
                                 ELSE parsed.v.v[i]]))
           ELSE Value(parsed.v)
      ELSE IF digits # <<>>
              /\ \A i \in DOMAIN digits :
                   \E d \in DOMAIN DigitChars : DigitChars[d] = digits[i]
      THEN Value(IntVal(IF val_str[1] = "-" THEN 0 - NatOf(digits)
                        ELSE NatOf(digits)))
      ELSE DictVal(<<<<(<<"r", "a", "w">>), StrVal(val_str)>>>>)

\* a value is encoded for a statement and the cell that carries it back is
\* decoded
RoundTrip(v) ==
  /\ last' = Call("round_trip", "-", [v |-> v, text |-> ToAgtypeValue(v)],
                  "ok", <<>>, <<>>, ParseAgtypeResult(ToAgtypeValue(v)))
  /\ UNCHANGED <<ent, labels, vrows, erows, nextId, query, declared,
                 label_registry>>

\* Graph._parse_results, line 98: one text cell of a row is decoded; no path
\* of _parse_agtype_result raises
ParseCell(text) ==
  /\ last' = Call("parse", "-", [text |-> text], "ok", <<>>, <<>>,
                  ParseAgtypeResult(text))
  /\ UNCHANGED <<ent, labels, vrows, erows, nextId, query, declared,
                 label_registry>>

(***************************************************************************)
(* Specifications.                                                         *)
(***************************************************************************)
Init ==
  /\ ent = [e \in Ents |-> NoEnt]
  /\ labels = {}
  /\ vrows = {}
  /\ erows = {}
  /\ nextId = 1
  /\ last = Call("none", "-", NoArg, "ok", <<>>, <<>>, {})
  /\ query = NewQuery
  /\ declared = {}
  /\ label_registry = ImportedRegistry

\* the assignments the runs make: `age` is re-assigned the value it has
AssignedVal(attr) == IF attr = "age" THEN InitVal ELSE NewVal

\* The vertex life cycle: v1 is constructed (with or without a _db handle),
\* assigned, read through its relationship slot and updated; v2 is
\* constructed (with or without the graph's binding) or hydrated from a
\* record of the store; both are added, added in bulk and deleted.
Next ==
  \/ \E e \in Vertices : \E kw \in Kwargs(e) : Construct(e, kw)
  \/ \E row \in vrows : Hydrate("v2", row)
  \/ \E attr \in {"name", "age", "friends"} :
       SetAttr("v1", attr, AssignedVal(attr))
  \/ \E res \in PlainResults : GetRel("v1", "friends", res)
  \/ \E e \in Vertices, res \in CreateResults :
       nextId <= MaxId /\ Add(e, res)
  \/ \E od \in BOOLEAN, res \in PlainResults : Update("v1", od, res)
  \/ \E e \in Vertices, res \in PlainResults : Delete(e, res)
  \/ \E list \in Lists(Vertices), res \in PlainResults :
       nextId + Len(list) - 1 <= MaxId /\ BulkAdd(list, res)

Spec == Init /\ [][Next]_vars

\* Edges between plainly constructed vertices: the edge object e1 is
\* constructed, assigned (the value it has), connected, inserted in bulk,
\* updated and deleted.
Triples == {<<"v1", "e1", "v2">>, <<"v2", "e1", "v1">>}

NextEdges ==
  \/ \E e \in Ents : Construct(e, PlainKw)
  \/ SetAttr("e1", "since", InitVal)
  \/ \E e \in Vertices, res \in PlainResults :
       nextId <= MaxEdgeId /\ Add(e, res)
  \/ \E od \in BOOLEAN, res \in PlainResults : Update("e1", od, res)
  \/ \E e \in Ents, res \in PlainResults : Delete(e, res)
  \/ \E f \in Vertices, t \in Vertices, res \in CreateResults :
       nextId <= MaxEdgeId /\ Connect(f, "e1", t, res)
  \/ \E triples \in Lists(Triples), res \in PlainResults :
       nextId + Len(triples) - 1 <= MaxEdgeId /\ BulkAddEdges(triples, res)

SpecEdges == Init /\ [][NextEdges]_vars
\* Relationship access: v1 is added, assigned, updated and read through its
\* cached slot `friends` and its uncached slot `peers` while its neighbour
\* v2 is added, connected to it by e1 and deleted.
NextRel ==
  \/ \E e \in Ents : Construct(e, PlainKw)
  \/ SetAttr("v1", "name", NewVal)
  \/ \E e \in Vertices : nextId <= MaxRelId /\ Add(e, "rows")
  \/ Update("v1", TRUE, "rows")
  \/ Delete("v2", "rows")
  \/ nextId <= MaxRelId /\ Connect("v1", "e1", "v2", "rows")
  \/ \E slot \in Refs(ClassOf("v1")), res \in PlainResults :
       GetRel("v1", slot, res)

SpecRel == Init /\ [][NextRel]_vars

\* The builder alone: filters, sort keys, limit / skip and projection are
\* accumulated in any order and the statement text is built.
FilterFields == {"name", "age"}
FilterValues == {InitVal, NewVal}

NextBuild ==
  \/ \E f \in FilterFields, v \in FilterValues, or \in BOOLEAN :
       Len(query.filters) < MaxFilters /\ QFilter(f, f, v, or)
  \/ Len(query.sort_columns) < MaxSort /\ QSort("n.age")
  \/ \E count \in 1..MaxPage, skip \in 0..1 : QLimit(count, skip)
  \/ QReturns(<<"n.name", "n.age">>)
  \/ QStr

SpecBuild == Init /\ [][NextBuild]_vars

\* Query execution: records of the label come and go through other writers
\* while one caller filters, limits and runs first / one / delete.
NextQuery ==
  \/ \E v \in FilterValues :
       /\ nextId <= MaxQId
       /\ OtherInsert(QueryLabel, [name |-> v, age |-> InitVal])
  \/ \E id \in 1..MaxQId : OtherDelete(id)
  \/ \E v \in FilterValues :
       Idle /\ Len(query.filters) < 1 /\ QFilter("name", "name", v, FALSE)
  \/ \E count \in 1..MaxPage : Idle /\ QLimit(count, 0)
  \/ \E res \in PlainResults : Idle /\ QFirst(res)
  \/ \E res \in PlainResults : Idle /\ QOne(res)
  \/ \E res \in PlainResults : Idle /\ QDeleteCount(res)
  \/ \E res \in PlainResults : QDeleteRun(res)

SpecQuery == Init /\ [][NextQuery]_vars

\* Type declarations, registry lookups and raw statements whose parsed rows
\* are hydrated through the registry.
RegistryLabels == {"Widget", "Gizmo", "PersonRel", "Thing"}
Cells ==
  {ValueCell(NewVal), ValueExtraCell(NewVal), VertexCell("Widget", 1),
   VertexCell("Unknown", 1)}
NextHydrate ==
  \/ \E cls \in NewTypes : DeclareClass(cls)
  \/ \E label \in RegistryLabels : Lookup(label)
  \/ \E c0, c1 \in Cells, columns \in {<<>>, <<"word", "count">>} :
       Cypher(<<ColRow(c0, c1)>>, columns)
  \/ \E c \in Cells, columns \in {<<>>, <<"text">>} : Cypher(<<c>>, columns)

SpecHydrate == Init /\ [][NextHydrate]_vars

\* bulk_add of distinct vertex objects, one statement at a time, while
\* another writer inserts records of the same label.
BulkLists ==
  {list \in Lists(Vertices) :
     list # <<>> /\ \A i, j \in 1..Len(list) : list[i] = list[j] => i = j}

NextBulk ==
  \/ \E e \in Vertices : Idle /\ Construct(e, PlainKw)
  \/ \E list \in BulkLists, res \in PlainResults :
       /\ Idle
       /\ nextId + Len(list) - 1 <= MaxBulkId
       /\ BulkAddInsert(list, res)
  \/ \E res \in PlainResults : BulkAddFetch(res)
  \/ /\ nextId <= MaxBulkId
     /\ OtherInsert(LabelOf("PersonWithRels"), [name |-> NewVal, age |-> NewVal])

SpecBulk == Init /\ [][NextBulk]_vars

\* Statement texts over the placeholders $age, $age_max and $age_min and a
\* separator, resolved with parameter maps over the names age and age_max.
Age == <<"a", "g", "e">>
AgeMax == <<"a", "g", "e", "_", "m", "a", "x">>
AgeMin == <<"a", "g", "e", "_", "m", "i", "n">>
Placeholder(name) == <<"$">> \o name
Tokens ==
  {Placeholder(Age), Placeholder(AgeMax), Placeholder(AgeMin), <<" ", "<", " ">>}

RECURSIVE Concat(_)
Concat(seqs) == IF seqs = <<>> THEN <<>> ELSE Head(seqs) \o Concat(Tail(seqs))

Texts == {Concat(ts) : ts \in UNION {[1..n -> Tokens] : n \in 0..MaxTokens}}

ParamValues ==
  {IntVal(20), IntVal(50), StrVal(<<"x">>), StrVal(Placeholder(Age)),
   StrVal(<<"'", "\\", "b">>)}
ParamMaps ==
  {<<>>}
  \cup {<<[key |-> Age, val |-> v]>> : v \in ParamValues}
  \cup {<<[key |-> Age, val |-> v], [key |-> AgeMax, val |-> w]>> :
          v \in {IntVal(20)}, w \in ParamValues}
  \cup {<<[key |-> AgeMax, val |-> w], [key |-> Age, val |-> v]>> :
          v \in {IntVal(20)}, w \in {IntVal(50)}}

\* the function is pure: a behaviour is one call, on any of the inputs
NextSubst ==
  \E cypher \in Texts, params \in ParamMaps :
    last.op = "none" /\ Substitute(cypher, params)

SpecSubst == Init /\ [][NextSubst]_vars

\* The values the codec runs encode: strings put together from CodecTokens,
\* and lists and dicts of a few values.
CodecStrings ==
  LET CodecTokens ==
        {<<"x">>, <<"}">>, <<"]">>, <<":", ":">>, <<"\"">>, <<"\\">>, <<"\n">>,
         <<"\f">>, <<"'">>}
  IN  {Concat(ts) :
         ts \in UNION {[1..n -> CodecTokens] : n \in 0..MaxCodecTokens}}
CodecItems ==
  {NoneVal, BoolVal(TRUE), IntVal(12), StrVal(<<"x">>),
   StrVal(<<"}", ":", ":", "x">>), ListVal(<<IntVal(1)>>), DictVal(<<>>),
   DictVal(<<<<(<<"k">>), IntVal(1)>>>>)}
CodecValues ==
  LET CodecKeys ==
        {<<"k">>, <<"i", "d">>, <<"v", "a", "l", "u", "e">>, <<"a", "\"", "b">>,
         <<"p", "r", "o", "p", "e", "r", "t", "i", "e", "s">>}
  IN  {NoneVal, BoolVal(TRUE), BoolVal(FALSE), IntVal(0), IntVal(12)}
      \cup {StrVal(s) : s \in CodecStrings}
      \cup {ListVal(items) :
               items \in UNION {[1..n -> CodecItems] : n \in 0..2}}
      \cup {DictVal(<<>>)}
      \cup {DictVal(<<<<k, v>>>>) : k \in CodecKeys, v \in CodecItems}
      \cup UNION {{DictVal(<<<<k, v>>, <<l, w>>>>) :
                     l \in CodecKeys \ {k}, v \in CodecItems,
                     w \in {IntVal(1), DictVal(<<>>)}} : k \in CodecKeys}

\* The cells the transport hands back: encoded values, bare or with a type
\* suffix, and every text cut short of such a cell.
WireTexts ==
  LET whole == {ToAgtypeValue(v) \o tag :
                  v \in CodecItems
                        \cup {DictVal(<<<<(<<"i", "d">>), IntVal(1)>>,
                                       <<(<<"p", "r", "o", "p", "e", "r", "t",
                                            "i", "e", "s">>), DictVal(<<>>)>>>>)},
                  tag \in {<<>>, <<":", ":", "v", "e", "r", "t", "e", "x">>}}
  IN  UNION {{SubSeq(t, 1, n) : n \in 1..Len(t)} : t \in whole}

NextCodec ==
  \/ \E v \in CodecValues : last.op = "none" /\ RoundTrip(v)
  \/ \E text \in WireTexts : last.op = "none" /\ ParseCell(text)

SpecCodec == Init /\ [][NextCodec]_vars

\* AsyncGraph, lines 518-705: the class defines add, update, delete, connect,
\* query, cypher and ensure_label.  bulk_add, bulk_add_edges, expand and
\* traverse are no attribute of it: the call raises AttributeError before any
\* statement or event.
AsyncMissing(op, list) ==
  /\ op \in {"bulk_add", "bulk_add_edges", "expand", "traverse"}
  /\ \A i \in 1..Len(list) : ent[list[i]].live
  /\ last' = Call(op, "-", [NoArg EXCEPT !.list = list], "AttributeError",
                  <<>>, <<>>, {})
  /\ UNCHANGED <<ent, labels, vrows, erows, nextId, query, declared,
                 label_registry>>

\* The operations of Spec through an AsyncGraph: add, update and delete are
\* the code of Graph with the transport calls awaited (lines 556-617), so
\* they are the same actions.
NextAsync ==
  \/ \E e \in Vertices : \E kw \in Kwargs(e) : Construct(e, kw)
  \/ \E attr \in {"name", "age", "friends"} :
       SetAttr("v1", attr, AssignedVal(attr))
  \/ \E e \in Vertices, res \in CreateResults :
       nextId <= MaxId /\ Add(e, res)
  \/ \E od \in BOOLEAN, res \in PlainResults : Update("v1", od, res)
  \/ \E e \in Vertices, res \in PlainResults : Delete(e, res)
  \/ \E list \in Lists(Vertices) :
       nextId + Len(list) - 1 <= MaxId /\ AsyncMissing("bulk_add", list)

SpecAsync == Init /\ [][NextAsync]_vars

\* An edge that is assigned a new value and updated: e1 connects v1 to v2,
\* its field is assigned and Graph.update writes it.
NextEdgeUpdate ==
  \/ \E e \in Ents : Construct(e, PlainKw)
  \/ \E e \in Vertices : nextId <= MaxEdgeId /\ Add(e, "rows")
  \/ nextId <= MaxEdgeId /\ Connect("v1", "e1", "v2", "rows")
  \/ \E e \in {"v1", "e1"} : \E attr \in AgeFields(ClassOf(e)) :
       SetAttr(e, attr, NewVal)
  \/ \E e \in {"v1", "e1"}, od \in BOOLEAN, res \in PlainResults :
       Update(e, od, res)

SpecEdgeUpdate == Init /\ [][NextEdgeUpdate]_vars

\* Two callers add entities of one label: the calls of one are followed
\* statement by statement, the other's run in between.
NextProvision ==
  \/ \E e \in Vertices : Idle /\ Construct(e, PlainKw)
  \/ \E e \in Vertices : Idle /\ AddCheck(e)
  \/ nextId <= MaxProvId /\ AddFinish
  \/ /\ nextId <= MaxProvId
     /\ OtherAdd(LabelOf("PersonWithRels"), [name |-> NewVal, age |-> NewVal])

SpecProvision == Init /\ [][NextProvision]_vars

(***************************************************************************)
(* Properties.                                                             *)
(***************************************************************************)
\* the identity and the binding of an object
Identity(r) == <<r.graph_id, r.db, r.graph>>

\* C1: whenever Graph.add returns normally for a vertex that had no graph_id,
\* the vertex is persisted: its graph_id is the identity of a record of the
\* store, its binding is the graph's and its dirty set is empty -- whatever
\* the transport returned for the create statement.
C1_AddPersists ==
  [][(last'.op = "add" /\ last'.out = "ok" /\ ent[last'.e].graph_id = NoId)
       => LET r == ent'[last'.e]
          IN  /\ r.graph_id # NoId
              /\ \E row \in vrows' : row.id = r.graph_id
              /\ r.db = TheDb /\ r.graph = TheGraph
              /\ r.dirty = {}]_vars

\* C2: in every reachable state every object has a graph_id exactly when it
\* has both a _db and a _graph.
C2_BoundIffPersisted ==
  \A e \in Ents :
    ent[e].live =>
      (ent[e].graph_id # NoId <=> (ent[e].db # NoneH /\ ent[e].graph # NoneH))

\* C3: a relationship access on an object whose _db or _graph is None raises
\* DetachedInstanceError and issues no statement, also when the slot was
\* resolved and cached while the object was bound.
C3_DetachedAccessRaises ==
  (last.op = "getrel" /\ (ent[last.e].db = NoneH \/ ent[last.e].graph = NoneH))
    => (last.out = "DetachedInstanceError" /\ last.stmts = <<>>)

\* C4: right after construction an object built without a _db handle has
\* dirty = all its persisted field names and one built with a _db handle has
\* dirty = {}; right after hydration by dict_to_model dirty = {}.
C4_InitialDirty ==
  /\ last.op = "construct" =>
       ent[last.e].dirty = IF ent[last.e].db = NoneH
                           THEN ModelFields(ent[last.e].cls) \ Refs(ent[last.e].cls)
                           ELSE {}
  /\ last.op = "hydrate" => ent[last.e].dirty = {}

\* a record of the store was hydrated into a bound, clean object
C4_Witness ==
  /\ last.op = "hydrate"
  /\ ent[last.e].graph_id # NoId /\ ent[last.e].db = TheDb
  /\ ent[last.e].dirty = {}

\* C5: assigning a persisted field x makes dirty' = dirty \cup {x} and leaves
\* identity and binding alone; assigning a relationship-slot name is rejected;
\* and dirty never holds anything but persisted field names.
C5_SetAttrTracksDirty ==
  [][/\ \A o \in Ents :
          ent'[o].live => ent'[o].dirty \subseteq AgeFields(ent'[o].cls)
     /\ last'.op = "setattr" =>
          LET e == last'.e
              x == last'.arg.attr
          IN  /\ x \in AgeFields(ent[e].cls) =>
                   /\ last'.out = "ok"
                   /\ ent'[e].dirty = ent[e].dirty \cup {x}
                   /\ Identity(ent'[e]) = Identity(ent[e])
              /\ x \in Refs(ent[e].cls) => last'.out # "ok"]_vars

\* C6: a Graph.delete that succeeds was called on a persisted object, leaves
\* it with graph_id, _db and _graph all None and its field values as they
\* were, and issued one statement naming the object's identity: DETACH DELETE
\* for a Vertex, a plain DELETE for an Edge.
C6_DeleteDetaches ==
  [][(last'.op = "delete" /\ last'.out = "ok")
       => LET e == last'.e
          IN  /\ ent[e].graph_id # NoId
              /\ Identity(ent'[e]) = <<NoId, NoneH, NoneH>>
              /\ ent'[e].data = ent[e].data
              /\ ent'[e].dirty = ent[e].dirty
              /\ Len(last'.stmts) = 1
              /\ last'.stmts[1].x = ent[e].graph_id
              /\ last'.stmts[1].k = IF e \in Vertices THEN "DETACH_DELETE"
                                    ELSE "DELETE_E"]_vars

\* a connected edge was deleted with a plain DELETE and is detached
C6_Witness ==
  /\ last.op = "delete" /\ last.out = "ok" /\ last.e \in Edges
  /\ last.stmts[1].k = "DELETE_E"
  /\ Identity(ent[last.e]) = <<NoId, NoneH, NoneH>>
  /\ ent[last.e].start_id # NoId

\* C7: Graph.update(entity, only_dirty=True) on a persisted object with an
\* empty dirty set executes no statement, dispatches no lifecycle event and
\* leaves the object as it was.
C7_UpdateNothingToWrite ==
  [][(/\ last'.op = "update" /\ last'.arg.only_dirty
      /\ ent[last'.e].graph_id # NoId /\ ent[last'.e].dirty = {})
       => /\ last'.out = "ok"
          /\ last'.stmts = <<>>
          /\ last'.events = <<>>
          /\ ent'[last'.e] = ent[last'.e]]_vars

\* C8: Graph.update on a persisted object with something to write issues
\* exactly one SET statement on the object's identity whose keys are the
\* dirty persisted fields (only_dirty) or all persisted fields (otherwise),
\* never a relationship slot; when it returns dirty = {} and identity and
\* binding are as they were.
C8_UpdateWritesDirty ==
  [][(/\ last'.op = "update"
      /\ ent[last'.e].graph_id # NoId
      /\ (last'.arg.only_dirty => ent[last'.e].dirty # {}))
       => LET r == ent[last'.e]
              persisted == ModelFields(r.cls) \ Refs(r.cls)
          IN  /\ Len(last'.stmts) = 1
              /\ last'.stmts[1].k = "SET"
              /\ last'.stmts[1].x = r.graph_id
              /\ last'.stmts[1].keys = IF last'.arg.only_dirty
                                       THEN r.dirty \cap persisted
                                       ELSE persisted
              /\ last'.stmts[1].keys \cap Refs(r.cls) = {}
              /\ last'.out \in {"ok", "TransportError"}
              /\ last'.out = "ok" =>
                   /\ ent'[last'.e].dirty = {}
                   /\ Identity(ent'[last'.e]) = Identity(r)
                   /\ ent'[last'.e].data = r.data]_vars

\* only the assigned field of a persisted vertex was written, and it is clean
C8_Witness ==
  /\ last.op = "update" /\ last.out = "ok" /\ last.arg.only_dirty
  /\ Len(last.stmts) = 1 /\ last.stmts[1].keys = {"name"}
  /\ ent[last.e].dirty = {} /\ ent[last.e].graph_id # NoId

C10_EndpointsImmutable ==
  [][\A e \in Edges :
       /\ ent'[e].start_id = NoId <=> ent'[e].end_id = NoId
       /\ (ent[e].start_id # NoId /\ ent[e].end_id # NoId)
            => /\ ent'[e].start_id = ent[e].start_id
               /\ ent'[e].end_id = ent[e].end_id]_vars

\* C11: once an object has a graph_id no Graph.add / bulk_add / connect /
\* update changes it to another graph_id, and a Graph.add on an object that
\* already has a graph_id creates no record in the store.
C11_GraphIdReadOnly ==
  [][/\ \A e \in Ents :
          (ent[e].graph_id # NoId /\ ent'[e].graph_id # NoId)
            => ent'[e].graph_id = ent[e].graph_id
     /\ (last'.op = "add" /\ ent[last'.e].graph_id # NoId)
          => vrows' = vrows]_vars

\* C12: an access to a slot whose value is stored issues no statement and
\* returns the stored value; an access to a slot with nothing stored on a
\* bound object issues exactly one traversal statement and, when it returns,
\* stores the value for the caching slot `friends` and stores nothing for the
\* non-caching slot `peers`; and no operation changes or drops a stored value.
C12_RelationshipCache ==
  [][/\ last'.op = "getrel" =>
          LET e == last'.e
              slot == last'.arg.attr
              c == ent[e].refs_vals[slot]
          IN  /\ c.has =>
                   /\ last'.out = "ok" /\ last'.stmts = <<>>
                   /\ last'.ret = c.val
                   /\ ent' = ent
              /\ (~c.has /\ ent[e].db # NoneH /\ ent[e].graph # NoneH) =>
                   /\ Len(last'.stmts) = 1
                   /\ last'.stmts[1].k = "TRAVERSE"
                   /\ last'.stmts[1].x = ent[e].graph_id
                   /\ last'.out = "ok" =>
                        ent'[e].refs_vals[slot] =
                          IF slot = "friends"
                          THEN [has |-> TRUE, val |-> last'.ret]
                          ELSE c
     /\ \A e \in Vertices :
          ent[e].live =>
            /\ ~ent'[e].refs_vals["peers"].has
            /\ ent[e].refs_vals["friends"].has =>
                 ent'[e].refs_vals["friends"] = ent[e].refs_vals["friends"]]_vars

\* the cached slot answered with the value resolved before the neighbour was
\* connected, without a statement, while a traversal would now find it
C12_Witness ==
  /\ last.op = "getrel" /\ last.arg.attr = "friends" /\ last.out = "ok"
  /\ last.stmts = <<>>
  /\ last.ret = {}
  /\ Traverse(ent[last.e].graph_id, "friends") # {}

\* the clause names of a statement text, in order
ClauseNames(text) == [i \in 1..Len(text) |-> text[i].c]

\* the clause names a builder state must give: each optional clause exactly
\* when its part of the state is set, in the fixed order
ExpectedClauses(q) ==
  <<"MATCH">> \o
  (IF Len(q.filters) > 0 THEN <<"WHERE">> ELSE <<>>) \o
  <<"RETURN">> \o
  (IF Len(q.sort_columns) > 0 THEN <<"ORDER BY">> ELSE <<>>) \o
  (IF q.skip > 0 THEN <<"SKIP">> ELSE <<>>) \o
  (IF q.limit # NoLimit THEN <<"LIMIT">> ELSE <<>>)

\* C19: in every builder state the statement text has its clauses in the
\* order MATCH, WHERE, RETURN, ORDER BY, SKIP, LIMIT, each optional clause
\* present exactly when its part of the state is set, and RETURN lists the
\* projection, or the bare variable n when there is none.
C19_ClauseOrder ==
  LET text == BuildCypher(query, "PersonRel")
  IN  /\ ClauseNames(text) = ExpectedClauses(query)
      /\ \A i \in 1..Len(text) :
           /\ text[i].c = "MATCH" => text[i].v = <<"PersonRel">>
           /\ text[i].c = "RETURN" =>
                text[i].v = IF query.return_fields = <<>> THEN <<"n">>
                            ELSE query.return_fields
           /\ text[i].c = "ORDER BY" => text[i].v = query.sort_columns
           /\ text[i].c = "SKIP" => text[i].v = <<query.skip>>
           /\ text[i].c = "LIMIT" => text[i].v = <<query.limit>>
           /\ text[i].c = "WHERE" => Len(text[i].v) = Len(query.filters)

\* the text of sort("n.age").limit(2, skip=1) after a filter and a projection
\* was returned with all six clauses
C19_Witness ==
  /\ last.op = "str"
  /\ \E text \in last.ret :
       ClauseNames(text) = <<"MATCH", "WHERE", "RETURN", "ORDER BY", "SKIP", "LIMIT">>
  /\ query.limit = 2 /\ query.skip = 1

\* C13: after Query.first() -- whether it returned an entity, returned None
\* or its statement raised -- the builder's limit, skip, filters, sort keys,
\* projection and bind variables are what they were before the call.
C13_FirstRestoresLimit ==
  [][last'.op = "first" => query' = query]_vars

\* a step of another writer: the store changes under the caller, whose last
\* call and builder stay as they are
OtherWriterActs == UNCHANGED <<last, query>> /\ vrows' # vrows

\* C14: Query.one() executes exactly one statement and leaves the builder
\* alone; it returns the record when the statement yields exactly one, raises
\* EntityNotFoundError when it yields none and MultipleResultsError when it
\* yields two or more.
C14_OneExactlyOne ==
  [][(last'.op = "one" /\ last'.out # "TransportError" /\ ~OtherWriterActs)
       => LET yielded == QueryResults(query, "PersonRel")
          IN  /\ Len(last'.stmts) = 1
              /\ query' = query
              /\ vrows' = vrows
              /\ Len(yielded) = 0 <=> last'.out = "EntityNotFoundError"
              /\ Len(yielded) >= 2 <=> last'.out = "MultipleResultsError"
              /\ Len(yielded) = 1 <=>
                   (last'.out = "ok" /\ last'.ret = {yielded[1]})]_vars

\* two records match the filter and one() raised MultipleResultsError
C14_Witness ==
  /\ last.op = "one" /\ last.out = "MultipleResultsError"
  /\ Len(query.filters) = 1
  /\ Cardinality(Matching(query, "PersonRel")) = 2
  /\ Cardinality(vrows) = 3

\* C15: Query.delete() issues its count statement before its delete
\* statement over the same predicate, and the number it returns is the
\* number of records its delete statement removed, whatever other writers
\* did to the label in between.
C15_DeleteCount ==
  [][(last'.op = "qdelete" /\ last'.out = "ok" /\ ~OtherWriterActs)
       => /\ Len(last'.stmts) = 2
          /\ last'.stmts[1].k = "COUNT" /\ last'.stmts[2].k = "DETACH_DELETE"
          /\ last'.stmts[1].text = last'.stmts[2].text
          /\ Cardinality(last'.ret) = Cardinality(vrows \ vrows')]_vars

\* C17: the label registry is append-only: a label registered to a type
\* stays registered to that type whatever types are declared later (a type
\* declaring the same label, a subclass inheriting the label), and a type
\* that declares no label is never registered.
C17_RegistryAppendOnly ==
  [][/\ \A l \in DOMAIN label_registry :
          l \in DOMAIN label_registry' /\ label_registry'[l] = label_registry[l]
     /\ \A l \in DOMAIN label_registry' :
          OwnLabel(label_registry'[l]) # NoLabel
            \/ label_registry'[l] \in {"PersonWithRels", "Knows"}]_vars

\* the bare value a cell is unwrapped to (a dict with the single key `value`)
Unwrapped(cell) ==
  IF DOMAIN cell = {"value"} THEN [scalar |-> cell.value] ELSE cell

\* a row keyed col_0, col_1, ... re-keyed by the caller's column names
Remapped(row, columns) ==
  [name \in {columns[i] : i \in DOMAIN columns} |->
     LET i == CHOOSE i \in DOMAIN columns : columns[i] = name
     IN  Unwrapped(row[ColKeys[i]])]

\* C18: Graph.cypher with column names returns each col_N-keyed row re-keyed
\* by those names, with single-key `value` cells unwrapped and other cells as
\* they are; rows without col_N keys, and calls without column names, come
\* back unchanged.
C18_CypherColumns ==
  [][last'.op = "cypher" =>
       \A i \in DOMAIN last'.ret :
         LET hydrated == HydrateResult(last'.arg.results[i])
         IN  IF last'.arg.columns # <<>>
                  /\ DOMAIN hydrated = {ColKeys[k] : k \in DOMAIN ColKeys}
             THEN last'.ret[i] = Remapped(hydrated, last'.arg.columns)
             ELSE last'.ret[i] = hydrated]_vars

\* C16: when no other writer inserted into the label between bulk_add's
\* insert and its identity fetch, the i-th entity is bound to the i-th record
\* bulk_add inserted, clean and bound to the graph; an entity bound to a record
\* bulk_add did not insert means another writer's insert came in between.
C16_BulkAddBinding ==
  [][(last.op = "bulk_add" /\ last.out = "pending" /\ last'.out = "ok")
       => LET list == last.arg.list
              own == last.ret
              lab == LabelOf(ent[list[1]].cls)
              between == {row \in vrows :
                            row.lab = lab /\ row.id > own[Len(own)]}
          IN  /\ between = {} =>
                   \A i \in 1..Len(list) :
                     /\ ent'[list[i]].graph_id = own[i]
                     /\ ent'[list[i]].dirty = {}
                     /\ ent'[list[i]].db = TheDb
                     /\ ent'[list[i]].graph = TheGraph
              /\ (\E i \in 1..Len(list) :
                    ent'[list[i]].graph_id \notin {own[k] : k \in 1..Len(own)})
                   => between # {}]_vars

\* bulk_add of two entities returned with one of them bound to a record of
\* another writer, inserted between the two statements
C16_Witness ==
  /\ last.op = "bulk_add" /\ last.out = "ok" /\ Len(last.arg.list) = 2
  /\ \E row \in vrows :
       /\ row.id = ent[last.arg.list[2]].graph_id
       /\ row.id \notin {last.ret[k] : k \in 1..2}
       /\ row.props.name = NewVal
  /\ ent[last.arg.list[1]].graph_id = last.ret[2]

\* the name that follows the `$` at position i: the longest run of
\* identifier characters
RECURSIVE NameAt(_, _)
NameAt(text, i) ==
  IF i > Len(text) \/ text[i] \notin IdentChars THEN <<>>
  ELSE <<text[i]>> \o NameAt(text, i + 1)

\* every placeholder of the text replaced by the encoding of the parameter
\* with exactly its name, the rest of the text as it is
RECURSIVE Resolved(_, _, _)
Resolved(text, params, i) ==
  IF i > Len(text) THEN <<>>
  ELSE LET name == NameAt(text, i + 1)
           named == {k \in DOMAIN params : params[k].key = name}
       IN  IF text[i] = "$" /\ named # {}
           THEN FormatCypherValue(params[CHOOSE k \in named : TRUE].val)
                  \o Resolved(text, params, i + Len(name) + 1)
           ELSE <<text[i]>> \o Resolved(text, params, i + 1)

\* C20: substitute_cypher_params replaces every placeholder $name by the
\* query-literal encoding of the parameter with exactly that name, also when
\* one parameter name is a prefix of another: $age is replaced, the age inside
\* $age_max is not.
C20_SubstituteExactNames ==
  last.op = "substitute" =>
    last.ret = Resolved(last.arg.cypher, last.arg.params, 1)

\* C29: when Graph.update returns normally from writing a persisted entity,
\* edge or vertex, the stored record with the entity's graph_id holds the
\* entity's field values and the entity is clean.
C29_UpdateWritesEdge ==
  [][(last'.op = "update" /\ last'.out = "ok" /\ last'.stmts # <<>>)
       => /\ ent'[last'.e].dirty = {}
          /\ \E row \in vrows' \cup erows' :
               /\ row.id = ent'[last'.e].graph_id
               /\ row.props = ModelDump(ent'[last'.e])]_vars

\* C25: every Graph.add / connect / update / delete call that returns
\* normally dispatched exactly its pre_ event and then its matching post_
\* event; at post_add the entity is persisted and clean, at pre_delete it is
\* still persisted and at post_delete it is detached.
C25_EventsBracket ==
  [][(last'.op \in {"add", "connect", "update", "delete"} /\ last'.out = "ok")
       => LET name == IF last'.op = "connect" THEN "add" ELSE last'.op
              pre == "pre_" \o name
              post == "post_" \o name
          IN  /\ last'.events = <<pre, post>>
              /\ name = "add" =>
                   /\ ent'[last'.e].graph_id # NoId
                   /\ ent'[last'.e].dirty = {}
              /\ name = "delete" =>
                   /\ ent[last'.e].graph_id # NoId
                   /\ Identity(ent'[last'.e]) = <<NoId, NoneH, NoneH>>]_vars

\* C26: when the transport fails on the statement of Graph.add, connect,
\* update or delete, that statement is the last one issued and is issued
\* once, no post_ event is dispatched, and entities and store are exactly as
\* before the call.
C26_FailureSurfaces ==
  [][(/\ last'.op \in {"add", "connect", "update", "delete"}
      /\ last'.out = "TransportError")
       => LET n == Len(last'.stmts)
              provisioning == {"LABEL_EXISTS", "CREATE_VLABEL", "CREATE_ELABEL"}
          IN  /\ n >= 1
              /\ last'.stmts[n].k \notin provisioning
              /\ \A i \in 1..(n - 1) : last'.stmts[i].k \in provisioning
              /\ \A i \in 1..Len(last'.events) :
                   last'.events[i] \in {"pre_add", "pre_update", "pre_delete"}
              /\ ent' = ent
              /\ vrows' = vrows /\ erows' = erows]_vars

\* a connect with an edge object that is already persisted failed on its
\* statement: the edge keeps its identity and endpoints
C26_Witness ==
  /\ last.op = "connect" /\ last.out = "TransportError"
  /\ ent[last.e].graph_id # NoId
  /\ ent[last.e].start_id # NoId
  /\ last.events = <<"pre_add">>

\* C28: each condition of the WHERE clause carries the value passed with the
\* call that added it: a later filter / filter_by call, also one that uses
\* the same parameter name, adds its own condition and changes neither the
\* field nor the value an earlier condition compares.
C28_FilterKeepsValues ==
  [][last'.op = "filter"
       => /\ Len(query'.filters) = Len(query.filters) + 1
          /\ \A i \in 1..Len(query.filters) :
               WherePart(query', i) = WherePart(query, i)]_vars

\* C27: two statements of an operation run on one acquired connection only
\* when they are a bulk insert and its identity fetch; every other statement,
\* label provisioning included, runs on an acquisition of its own.
C27_OneStatementPerConnection ==
  \A i, j \in 1..Len(last.stmts) :
    (i < j /\ Acquisition(last.stmts, i) = Acquisition(last.stmts, j))
      => /\ last.stmts[i].k \in {"INSERT_V", "INSERT_E"}
         /\ last.stmts[j].k = "SELECT_IDS"

\* C30: whatever another caller's add does between the existence check and
\* the create-label statement of an add, the add completes successfully with
\* its entity persisted, and the label is created once: by this call exactly
\* when it did not exist before the call's last statements.
C30_ProvisionSafe ==
  [][(last.op = "add" /\ last.out = "pending" /\ last'.out # "pending")
       => /\ last'.out = "ok"
          /\ ent'[last'.e].graph_id # NoId
          /\ LabelOf(ent[last'.e].cls) \in labels'
          /\ (\E i \in 1..Len(last'.stmts) : last'.stmts[i].k = "CREATE_VLABEL")
               <=> LabelOf(ent[last'.e].cls) \notin labels]_vars

\* C21: a string passed as a bind variable stands in the built statement as
\* one well-formed string literal whose value is the string: the text that
\* replaces the placeholder opens with a quote, closes with the first
\* unescaped quote, which is its last character, and its escapes decode to
\* the characters of the string.
C21_StringLiteralRoundTrip ==
  LET RECURSIVE LiteralValue(_, _)
      \* the value of the literal body from position i on, <<"malformed">>
      \* appended when it does not end in the closing quote
      LiteralValue(text, i) ==
        IF i > Len(text) THEN <<"malformed">>
        ELSE IF text[i] = "'"
        THEN (IF i = Len(text) THEN <<>> ELSE <<"malformed">>)
        ELSE IF text[i] = "\\"
        THEN (IF i + 1 <= Len(text) /\ text[i + 1] \in {"\\", "'"}
              THEN <<text[i + 1]>> \o LiteralValue(text, i + 2)
              ELSE <<"malformed">>)
        ELSE <<text[i]>> \o LiteralValue(text, i + 1)
  IN  last.op = "substitute" =>
        \A k \in DOMAIN last.arg.params :
          (/\ last.arg.cypher = Placeholder(last.arg.params[k].key)
           /\ last.arg.params[k].val.t = "str")
            => /\ last.ret # <<>>
               /\ last.ret[1] = "'"
               /\ LiteralValue(last.ret, 2) = last.arg.params[k].val.v

\* C22: decoding the encoding of a value gives the value back: a dict decodes
\* to a dict with the same items, and None, a bool, an int, a str or a list v
\* decodes to the record {value: v}.
C22_EncodeDecodeRoundTrip ==
  last.op = "round_trip" =>
    IF last.arg.v.t = "dict"
    THEN /\ last.ret.t = "dict"
         /\ {last.ret.v[i] : i \in DOMAIN last.ret.v}
              = {last.arg.v.v[i] : i \in DOMAIN last.arg.v.v}
    ELSE last.ret = DictVal(<<<<(<<"v", "a", "l", "u", "e">>), last.arg.v>>>>)

\* C23: a cell that starts like a JSON object, array or quoted string but
\* does not parse is refused with a decoding error; it is never handed back
\* as a number or as a raw-text record.
C23_MalformedCellRaises ==
  (/\ last.op = "parse"
   /\ StripSuffixes(last.arg.text) # <<>>
   /\ StripSuffixes(last.arg.text)[1] \in {"{", "[", "\""}
   /\ ~JsonLoads(StripSuffixes(last.arg.text)).ok)
    => last.out = "DecodingError"

\* C24: AsyncGraph mirrors Graph: every operation run through an AsyncGraph
\* is a step the same operation of Graph takes from the same state, with the
\* same statements in the same order, the same events, the same outcome and
\* the same final state.
C24_AsyncMirrorsGraph == [][Next]_vars
====
